---- MODULE Spec2Model ----
(***************************************************************************)
(* Model of the indexing orchestrator (internal/indexer/indexer.go) and of *)
(* the file-hash cache (internal/cache, FileHashManager) of                *)
(* codebase-semantic-search.                                               *)
(*                                                                         *)
(* One Indexer owns one FileHashManager, one vector-database client and a  *)
(* registry of jobs.  Every call of Index creates a job and runs doIndex,  *)
(* inline or in a goroutine; doIndex fans the scanned files out to a pool  *)
(* of workers, collects their chunks, embeds them, stores them and then    *)
(* saves the hash cache.                                                   *)
(*                                                                         *)
(* Environment: the cache directory stays readable and writable (it is     *)
(* created by NewFileHashManager), scanned source files stay readable for  *)
(* hashing, and the embedding backend, the vector backend and the chunker  *)
(* may each fail on any call.                                              *)
(***************************************************************************)
EXTENDS Integers, Sequences, FiniteSets, TLC

\* ---------------------------------------------------------------- bounds
MaxJobs == 2
MaxWorkers == 2
MaxEdits == 1

\* ------------------------------------------------------- the file system
\* Repository paths handed to Index; "rX" is a path that does not exist.
Repos == {"rA", "rB"}
RepoPaths == Repos \cup {"rX"}

FilesOf(r) ==
  CASE r = "rA" -> <<"a1", "a2">>
    [] r = "rB" -> <<"b1">>
    [] OTHER    -> << >>

Range(s) == {s[i] : i \in 1..Len(s)}

AllFiles == UNION {Range(FilesOf(r)) : r \in Repos}

\* The files that are edited while the indexer runs.
Editable == {"a1"}

\* A nil *FileHashCache, and a cache file that does not exist.
NilCache == [RepoPath |-> "<nil>", Hashes |-> << >>]

VARIABLES
  config,      \* Indexer.config.Indexing: Background, Incremental, ParallelWorkers
  files,       \* content of every source file on disk (a version number)
  cache,       \* FileHashManager.cache: NilCache or a FileHashCache
  cacheFiles,  \* persisted cache file per repository path: NilCache when absent
  vectorDB,    \* points held by the vector backend
  jobs,        \* Indexer.jobs, in creation order: the IndexJob records
  proc,        \* per job: program counter and locals of doIndex / processFilesInParallel
  server,      \* one handleIndexCodebase request of the MCP server and its context
  store,       \* a FileHashManager of its own and its cache directory, byte by byte
  search,      \* one Searcher.Search call: query, backend candidates, results
  chunking,    \* one chunker call: the file and the chunks returned
  scanning,    \* one Scanner.Scan call: the walk over the repository tree
  vectors,     \* the vector backend's points and one Upsert / Search exchange
  embedding    \* one GenerateEmbeddings fan-out: goroutines, semaphore, results

\* The variables of the indexer and those of the components modelled apart.
indexerVars == <<config, files, cache, cacheFiles, vectorDB, jobs, proc>>

moreVars == <<scanning, vectors, embedding>>

libVars == <<server, store, search, chunking, moreVars>>

vars == <<indexerVars, libVars>>

\* The value of a component's variable in the runs that do not exercise it.
Unused == [pc |-> "unused"]

MoreUnused == scanning = Unused /\ vectors = Unused /\ embedding = Unused

LibUnused ==
  /\ server = Unused /\ store = Unused /\ search = Unused /\ chunking = Unused
  /\ MoreUnused

\* --------------------------------------------------------------- helpers
Terminal == {"completed", "failed"}

\* A map literal with one more key (Go: m[k] = v).
Put(m, k, v) == [x \in (DOMAIN m) \cup {k} |-> IF x = k THEN v ELSE m[x]]

EmptyMap == << >>

\* ------------------------------------------------------- FileHashManager
\* A digest that depends on the path instead of the bytes.
computeFileHash_OfPath(f) == <<"sha256", f>>

\* computeFileHash: the SHA-256 digest of the file's bytes, as a hex string.
\* Distinct contents have distinct digests.
computeFileHash(f) == <<"sha256", files[f]>>

\* The FileHashCache that Load and Clear build when nothing is persisted.
NewCache(repoPath) == [RepoPath |-> repoPath, Hashes |-> EmptyMap]

\* A Load that ignores the persisted file.
Load_Empty(repoPath) == [RepoPath |-> repoPath, Hashes |-> << >>]

\* Load: the cache read from the persisted file, or a new empty one.
Load(repoPath) ==
  IF cacheFiles[repoPath] = NilCache THEN NewCache(repoPath) ELSE cacheFiles[repoPath]

\* NeedsReindex(filePath): TRUE when no cache is loaded, when the file has no
\* entry, or when the entry's hash differs from the hash of the current bytes.
NeedsReindex(f) ==
  IF cache = NilCache THEN TRUE
  ELSE IF f \notin DOMAIN cache.Hashes THEN TRUE
  ELSE cache.Hashes[f].Hash # computeFileHash(f)

\* Update(filePath, chunkCount): the cache after the call; without a loaded
\* cache the call returns an error and changes nothing.  Content is not a
\* field of the program's FileHash: it remembers the bytes that were hashed.
UpdateFails == cache = NilCache

Update(f, chunkCount) ==
  IF cache = NilCache THEN cache
  ELSE [cache EXCEPT !.Hashes =
          Put(@, f, [Hash |-> computeFileHash(f), ChunkCount |-> chunkCount,
                     Content |-> files[f]])]

\* Save: fails when no cache is loaded; otherwise writes a copy of the cache to
\* the file named after the cache's own RepoPath.
SaveFails == cache = NilCache

Save == IF cache = NilCache THEN cacheFiles
        ELSE [cacheFiles EXCEPT ![cache.RepoPath] = cache]

\* ------------------------------------------------------------------ jobs
DefaultWorkers == 4

\* numWorkers of processFilesInParallel.
NumWorkers == IF config.ParallelWorkers <= 0 THEN DefaultWorkers
              ELSE config.ParallelWorkers

\* The IndexJob built by Index.  EndTime 0 is the zero time; the k-th
\* assignment of time.Now() to it is the value k.  Progress is the quotient
\* num / den.
NewJob(repoPath) ==
  [RepoPath |-> repoPath, Status |-> "running", EndTime |-> 0,
   FilesTotal |-> 0, FilesIndexed |-> 0, Progress |-> [num |-> 0, den |-> 1],
   ChunksTotal |-> 0, Error |-> ""]

IdleWorker == [pc |-> "exit", filePath |-> "", chunks |-> << >>, current |-> 0]

\* Locals of one doIndex call.  embedErr, storeErr and saveErr are the err
\* values of the three calls ("none" while the call has not been made).
\* The remaining fields record the history of the call: chunked, chunkFailed
\* and updated are the files handed to ChunkFile, those whose ChunkFile call
\* failed and those whose Update call succeeded; newFiles and cachedFiles are
\* the scanned files without a cache entry and those with an entry of their
\* current content when the scan returned; stable says that no file was
\* edited since Index was called; sent lists the batches that the workers
\* have put on the chunk channel; afterClean says that the call directly
\* follows a clean job (see Return) of the same repository and is not forced.
NewProc(force, follows) ==
  [pc |-> "load", forceReindex |-> force,
   fileChan |-> << >>, chunkChan |-> << >>, closed |-> FALSE,
   allChunks |-> << >>, processedFiles |-> 0, sent |-> << >>,
   worker |-> << >>, collector |-> "idle",
   embedErr |-> "none", storeErr |-> "none", saveErr |-> "none",
   chunked |-> {}, chunkFailed |-> {}, updated |-> {},
   newFiles |-> {}, cachedFiles |-> {},
   stable |-> TRUE, afterClean |-> follows, clean |-> FALSE]

\* What is left of the locals once doIndex has returned.
Returned == [NewProc(FALSE, FALSE) EXCEPT !.pc = "returned"]

JobIds == 1..Len(jobs)

\* No doIndex call is in progress.
Quiet == \A j \in JobIds : proc[j].pc = "returned"

\* In synchronous mode Index returns only when doIndex has returned, so the
\* caller makes its next call after that; in background mode Index returns
\* at once and calls overlap with running jobs.
CallerFree == config.Background \/ Quiet

\* NewIndexer: no cache loaded, no job; nothing persisted, nothing stored.
NewIndexer ==
  /\ files = [f \in AllFiles |-> 0]
  /\ cache = NilCache
  /\ cacheFiles = [r \in RepoPaths |-> NilCache]
  /\ vectorDB = {}
  /\ jobs = << >>
  /\ proc = << >>

Init ==
  /\ config \in [Background : BOOLEAN, Incremental : BOOLEAN,
                 ParallelWorkers : 1..MaxWorkers]
  /\ NewIndexer
  /\ LibUnused

\* The indexer's variables in the runs that exercise one component only.
IndexerUnused ==
  /\ config = [Background |-> FALSE, Incremental |-> TRUE, ParallelWorkers |-> 1]
  /\ NewIndexer

\* Bound on the Index calls of one run: histories of several jobs are explored
\* in synchronous mode with a single worker; calls that overlap a running job
\* and races between workers are explored with a single job.
JobLimit == IF NumWorkers = 1 /\ ~config.Background THEN MaxJobs ELSE 1

\* Index(repoPath, forceReindex): create the job, store it, start doIndex.
Index(repoPath, force) ==
  /\ CallerFree
  /\ Len(jobs) < JobLimit
  /\ jobs' = Append(jobs, NewJob(repoPath))
  /\ proc' = Append(proc, NewProc(force,
                /\ ~force
                /\ jobs # << >>
                /\ proc[Len(jobs)].clean
                /\ jobs[Len(jobs)].RepoPath = repoPath))
  /\ UNCHANGED <<config, files, cache, cacheFiles, vectorDB>>

\* doIndex, "Load file hash cache": a failed Load is only logged.
LoadCache(j) ==
  /\ proc[j].pc = "load"
  /\ cache' = IF ~proc[j].forceReindex /\ config.Incremental
              THEN Load(jobs[j].RepoPath) ELSE cache
  /\ proc' = [proc EXCEPT ![j].pc = "scan"]
  /\ UNCHANGED <<config, files, cacheFiles, vectorDB, jobs>>

\* doIndex, "Scan repository": Scan fails when the path is no directory;
\* otherwise the job records the file count and processFilesInParallel fills
\* the file channel, closes it and starts the workers and the collector.
ScanRepo(j) ==
  /\ proc[j].pc = "scan"
  /\ IF jobs[j].RepoPath \notin Repos
     THEN /\ jobs' = [jobs EXCEPT ![j].Status = "failed", ![j].Error = "scan"]
          /\ proc' = [proc EXCEPT ![j].pc = "defer"]
     ELSE /\ jobs' = [jobs EXCEPT ![j].FilesTotal = Len(FilesOf(jobs[j].RepoPath))]
          /\ proc' = [proc EXCEPT
                ![j].pc = "wait",
                ![j].fileChan = FilesOf(jobs[j].RepoPath),
                ![j].worker = [w \in 1..NumWorkers |-> [IdleWorker EXCEPT !.pc = "recv"]],
                ![j].newFiles = {f \in Range(FilesOf(jobs[j].RepoPath)) :
                                   f \notin DOMAIN cache.Hashes},
                ![j].cachedFiles = {f \in Range(FilesOf(jobs[j].RepoPath)) :
                                      ~NeedsReindex(f)},
                ![j].collector = "run"]
  /\ UNCHANGED <<config, files, cache, cacheFiles, vectorDB>>

\* --------------------------------------------------------------- workers
\* Capacity of the chunk channel.
ChunkChanCap == NumWorkers * 2

\* A ChunkFile whose chunk ids are derived from the file path.
ChunkFileResults_PathIds(j, f) ==
  { [err |-> TRUE,  chunks |-> << >>],
    [err |-> FALSE, chunks |-> << >>],
    [err |-> FALSE, chunks |-> << [ID |-> <<0, f>>, RepoPath |-> jobs[j].RepoPath,
                                   FilePath |-> f, Content |-> files[f]] >>] }

\* Results of ChunkFile: an error (the read or the token chunking failed), no
\* chunk (a file of white space only), or the chunks of the file's content.
\* Chunk ids are fresh UUIDs: no two calls give the same id.
ChunkFileResults(j, f) ==
  { [err |-> TRUE,  chunks |-> << >>],
    [err |-> FALSE, chunks |-> << >>],
    [err |-> FALSE, chunks |-> << [ID |-> <<j, f>>, RepoPath |-> jobs[j].RepoPath,
                                   FilePath |-> f, Content |-> files[f]] >>] }

\* for filePath := range fileChan: take the next file, or leave the loop when
\* the channel is drained (wg.Done).
WorkerRecv(j, w) ==
  /\ proc[j].worker[w].pc = "recv"
  /\ IF proc[j].fileChan = << >>
     THEN proc' = [proc EXCEPT ![j].worker[w].pc = "exit"]
     ELSE proc' = [proc EXCEPT
            ![j].fileChan = Tail(@),
            ![j].worker[w].filePath = Head(proc[j].fileChan),
            ![j].worker[w].pc =
               IF ~proc[j].forceReindex /\ config.Incremental THEN "check" ELSE "chunk"]
  /\ UNCHANGED <<config, files, cache, cacheFiles, vectorDB, jobs>>

\* "Check if file needs reindexing": an unchanged file is skipped and counted.
WorkerCheck(j, w) ==
  /\ proc[j].worker[w].pc = "check"
  /\ proc' = [proc EXCEPT ![j].worker[w].pc =
                IF NeedsReindex(proc[j].worker[w].filePath) THEN "chunk" ELSE "add"]
  /\ UNCHANGED <<config, files, cache, cacheFiles, vectorDB, jobs>>

\* A worker without the continue after a failed ChunkFile.
WorkerChunk_FallsThrough(j, w) ==
  /\ proc[j].worker[w].pc = "chunk"
  /\ \E r \in ChunkFileResults(j, proc[j].worker[w].filePath) :
       proc' = [proc EXCEPT
          ![j].worker[w].chunks = r.chunks,
          ![j].chunked = @ \cup {proc[j].worker[w].filePath},
          ![j].worker[w].pc = "send",
          ![j].chunkFailed = IF r.err THEN @ \cup {proc[j].worker[w].filePath} ELSE @]
  /\ UNCHANGED <<config, files, cache, cacheFiles, vectorDB, jobs>>

\* "Chunk file": a failure is logged, the file is counted and the loop goes on.
WorkerChunk(j, w) ==
  /\ proc[j].worker[w].pc = "chunk"
  /\ \E r \in ChunkFileResults(j, proc[j].worker[w].filePath) :
       proc' = [proc EXCEPT
          ![j].worker[w].chunks = r.chunks,
          ![j].chunked = @ \cup {proc[j].worker[w].filePath},
          ![j].worker[w].pc = IF r.err THEN "add" ELSE "send",
          ![j].chunkFailed = IF r.err THEN @ \cup {proc[j].worker[w].filePath} ELSE @]
  /\ UNCHANGED <<config, files, cache, cacheFiles, vectorDB, jobs>>

\* chunkChan <- chunks: blocks while the channel is full.
WorkerSend(j, w) ==
  /\ proc[j].worker[w].pc = "send"
  /\ Len(proc[j].chunkChan) < ChunkChanCap
  /\ proc' = [proc EXCEPT
        ![j].chunkChan = Append(@, proc[j].worker[w].chunks),
        ![j].sent = Append(@, proc[j].worker[w].chunks),
        ![j].worker[w].pc = IF config.Incremental THEN "update" ELSE "add"]
  /\ UNCHANGED <<config, files, cache, cacheFiles, vectorDB, jobs>>

\* "Update hash cache": a failed Update is only logged.
WorkerUpdate(j, w) ==
  /\ proc[j].worker[w].pc = "update"
  /\ cache' = Update(proc[j].worker[w].filePath, Len(proc[j].worker[w].chunks))
  /\ proc' = [proc EXCEPT
        ![j].worker[w].pc = "add",
        ![j].updated = IF UpdateFails THEN @ ELSE @ \cup {proc[j].worker[w].filePath}]
  /\ UNCHANGED <<config, files, cacheFiles, vectorDB, jobs>>

\* atomic.AddInt64(&processedFiles, 1)
WorkerAdd(j, w) ==
  /\ proc[j].worker[w].pc = "add"
  /\ proc' = [proc EXCEPT ![j].processedFiles = @ + 1, ![j].worker[w].pc = "read"]
  /\ UNCHANGED <<config, files, cache, cacheFiles, vectorDB, jobs>>

\* current := atomic.LoadInt64(&processedFiles)
WorkerRead(j, w) ==
  /\ proc[j].worker[w].pc = "read"
  /\ proc' = [proc EXCEPT ![j].worker[w].current = proc[j].processedFiles,
                          ![j].worker[w].pc = "setFiles"]
  /\ UNCHANGED <<config, files, cache, cacheFiles, vectorDB, jobs>>

\* job.FilesIndexed = int(current)
WorkerSetFiles(j, w) ==
  /\ proc[j].worker[w].pc = "setFiles"
  /\ jobs' = [jobs EXCEPT ![j].FilesIndexed = proc[j].worker[w].current]
  /\ proc' = [proc EXCEPT ![j].worker[w].pc = "setProgress"]
  /\ UNCHANGED <<config, files, cache, cacheFiles, vectorDB>>

\* job.Progress = float64(current) / float64(job.FilesTotal); next iteration.
WorkerSetProgress(j, w) ==
  /\ proc[j].worker[w].pc = "setProgress"
  /\ jobs' = [jobs EXCEPT ![j].Progress =
                [num |-> proc[j].worker[w].current, den |-> jobs[j].FilesTotal]]
  /\ proc' = [proc EXCEPT ![j].worker[w] = [IdleWorker EXCEPT !.pc = "recv"]]
  /\ UNCHANGED <<config, files, cache, cacheFiles, vectorDB>>

\* The collector goroutine: for chunks := range chunkChan, append to allChunks;
\* when the channel is closed and drained, done <- true.
CollectorRecv(j) ==
  /\ proc[j].collector = "run"
  /\ proc[j].chunkChan # << >>
  /\ proc' = [proc EXCEPT ![j].chunkChan = Tail(@),
                          ![j].allChunks = @ \o Head(proc[j].chunkChan)]
  /\ UNCHANGED <<config, files, cache, cacheFiles, vectorDB, jobs>>

CollectorDone(j) ==
  /\ proc[j].collector = "run"
  /\ proc[j].chunkChan = << >>
  /\ proc[j].closed
  /\ proc' = [proc EXCEPT ![j].collector = "done"]
  /\ UNCHANGED <<config, files, cache, cacheFiles, vectorDB, jobs>>

\* A close of the chunk channel as soon as one worker has finished.
WaitWorkers_First(j) ==
  /\ proc[j].pc = "wait"
  /\ \E w \in DOMAIN proc[j].worker : proc[j].worker[w].pc = "exit"
  /\ proc' = [proc EXCEPT ![j].closed = TRUE, ![j].pc = "drain"]
  /\ UNCHANGED <<config, files, cache, cacheFiles, vectorDB, jobs>>

\* wg.Wait(); close(chunkChan)
WaitWorkers(j) ==
  /\ proc[j].pc = "wait"
  /\ \A w \in DOMAIN proc[j].worker : proc[j].worker[w].pc = "exit"
  /\ proc' = [proc EXCEPT ![j].closed = TRUE, ![j].pc = "drain"]
  /\ UNCHANGED <<config, files, cache, cacheFiles, vectorDB, jobs>>

\* <-done; return allChunks; job.ChunksTotal = len(allChunks)
WaitCollector(j) ==
  /\ proc[j].pc = "drain"
  /\ proc[j].collector = "done"
  /\ jobs' = [jobs EXCEPT ![j].ChunksTotal = Len(proc[j].allChunks)]
  /\ proc' = [proc EXCEPT ![j].pc = IF proc[j].allChunks # << >> THEN "embed" ELSE "save"]
  /\ UNCHANGED <<config, files, cache, cacheFiles, vectorDB>>

\* ------------------------------------------------- doIndex, after the pool
\* An embedding phase without the return after a failure.
Embed_KeepsGoing(j) ==
  /\ proc[j].pc = "embed"
  /\ \E ok \in BOOLEAN :
       IF ok
       THEN /\ proc' = [proc EXCEPT ![j].embedErr = "nil", ![j].pc = "store"]
            /\ jobs' = jobs
       ELSE /\ proc' = [proc EXCEPT ![j].embedErr = "err", ![j].pc = "store"]
            /\ jobs' = [jobs EXCEPT ![j].Status = "failed", ![j].Error = "embed"]
  /\ UNCHANGED <<config, files, cache, cacheFiles, vectorDB>>

\* "Phase 3: Generate embeddings": on an error the job fails and doIndex
\* returns without saving the cache.
Embed(j) ==
  /\ proc[j].pc = "embed"
  /\ \E ok \in BOOLEAN :
       IF ok
       THEN /\ proc' = [proc EXCEPT ![j].embedErr = "nil", ![j].pc = "store"]
            /\ jobs' = jobs
       ELSE /\ proc' = [proc EXCEPT ![j].embedErr = "err", ![j].pc = "defer"]
            /\ jobs' = [jobs EXCEPT ![j].Status = "failed", ![j].Error = "embed"]
  /\ UNCHANGED <<config, files, cache, cacheFiles, vectorDB>>

\* Upsert: a point replaces the stored point of the same id.
Upsert(points, chunks) ==
  {p \in points : \A c \in Range(chunks) : c.ID # p.ID} \cup Range(chunks)

\* A storage phase without the return after a failure.
Store_KeepsGoing(j) ==
  /\ proc[j].pc = "store"
  /\ \E ok \in BOOLEAN :
       IF ok
       THEN /\ vectorDB' = Upsert(vectorDB, proc[j].allChunks)
            /\ proc' = [proc EXCEPT ![j].storeErr = "nil", ![j].pc = "save"]
            /\ jobs' = jobs
       ELSE /\ vectorDB' = vectorDB
            /\ proc' = [proc EXCEPT ![j].storeErr = "err", ![j].pc = "save"]
            /\ jobs' = [jobs EXCEPT ![j].Status = "failed", ![j].Error = "store"]
  /\ UNCHANGED <<config, files, cache, cacheFiles>>

\* "Phase 4: Store in vector database": UpsertChunks adds one point per chunk.
Store(j) ==
  /\ proc[j].pc = "store"
  /\ \E ok \in BOOLEAN :
       IF ok
       THEN /\ vectorDB' = Upsert(vectorDB, proc[j].allChunks)
            /\ proc' = [proc EXCEPT ![j].storeErr = "nil", ![j].pc = "save"]
            /\ jobs' = jobs
       ELSE /\ vectorDB' = vectorDB
            /\ proc' = [proc EXCEPT ![j].storeErr = "err", ![j].pc = "defer"]
            /\ jobs' = [jobs EXCEPT ![j].Status = "failed", ![j].Error = "store"]
  /\ UNCHANGED <<config, files, cache, cacheFiles>>

\* "Save hash cache ONLY after successful Qdrant storage".
SaveCache(j) ==
  /\ proc[j].pc = "save"
  /\ IF ~config.Incremental
     THEN /\ proc' = [proc EXCEPT ![j].pc = "complete"]
          /\ UNCHANGED <<jobs, cacheFiles>>
     ELSE IF SaveFails
     THEN /\ proc' = [proc EXCEPT ![j].saveErr = "err", ![j].pc = "defer"]
          /\ jobs' = [jobs EXCEPT ![j].Status = "failed", ![j].Error = "save"]
          /\ UNCHANGED cacheFiles
     ELSE /\ cacheFiles' = Save
          /\ proc' = [proc EXCEPT ![j].saveErr = "nil", ![j].pc = "complete"]
          /\ UNCHANGED jobs
  /\ UNCHANGED <<config, files, cache, vectorDB>>

\* job.Status = models.IndexStatusCompleted
Complete(j) ==
  /\ proc[j].pc = "complete"
  /\ jobs' = [jobs EXCEPT ![j].Status = "completed"]
  /\ proc' = [proc EXCEPT ![j].pc = "endTime"]
  /\ UNCHANGED <<config, files, cache, cacheFiles, vectorDB>>

\* job.EndTime = time.Now(), the last statement of doIndex
SetEndTime(j) ==
  /\ proc[j].pc = "endTime"
  /\ jobs' = [jobs EXCEPT ![j].EndTime = @ + 1]
  /\ proc' = [proc EXCEPT ![j].pc = "defer"]
  /\ UNCHANGED <<config, files, cache, cacheFiles, vectorDB>>

\* The deferred function of doIndex: job.EndTime = time.Now()
Deferred(j) ==
  /\ proc[j].pc = "defer"
  /\ jobs' = [jobs EXCEPT ![j].EndTime = @ + 1]
  /\ proc' = [proc EXCEPT ![j].pc = "done"]
  /\ UNCHANGED <<config, files, cache, cacheFiles, vectorDB>>

\* doIndex returns: its locals are gone, the job stays in the registry.  The
\* job was clean when it was incremental and not forced, chunked every file
\* of the repository without an error, completed, and no file was edited
\* since it was created.
Return(j) ==
  /\ proc[j].pc = "done"
  /\ proc' = [proc EXCEPT ![j] = [Returned EXCEPT !.clean =
        /\ jobs[j].Status = "completed"
        /\ config.Incremental /\ ~proc[j].forceReindex
        /\ proc[j].chunked = Range(FilesOf(jobs[j].RepoPath))
        /\ proc[j].chunkFailed = {}
        /\ proc[j].stable]]
  /\ UNCHANGED <<config, files, cache, cacheFiles, vectorDB, jobs>>

\* ------------------------------------------------- the other entry points
\* GetRepoIndex(repoPath): with a running job for the repository it reports
\* that job; otherwise it counts the repository's points and loads the
\* repository's cache for the file count.
GetRepoIndex(repoPath) ==
  /\ CallerFree
  /\ IF \E j \in JobIds : jobs[j].RepoPath = repoPath /\ jobs[j].Status = "running"
     THEN UNCHANGED cache
     ELSE cache' = Load(repoPath)
  /\ UNCHANGED <<config, files, cacheFiles, vectorDB, jobs, proc>>

\* ClearCache(repoPath) = FileHashManager.Clear: remove the persisted file
\* and install an empty cache for the repository.
ClearCache(repoPath) ==
  /\ CallerFree
  /\ cacheFiles' = [cacheFiles EXCEPT ![repoPath] = NilCache]
  /\ cache' = NewCache(repoPath)
  /\ proc' = [j \in JobIds |->
        [proc[j] EXCEPT !.clean = @ /\ jobs[j].RepoPath # repoPath]]
  /\ UNCHANGED <<config, files, vectorDB, jobs>>

\* The environment: somebody edits a source file.  An edit made before the
\* first Index call is the same as another initial content.
Edits == LET Sum[S \in SUBSET AllFiles] ==
               IF S = {} THEN 0
               ELSE LET f == CHOOSE x \in S : TRUE IN files[f] + Sum[S \ {f}]
         IN Sum[AllFiles]

ModifyFile(f) ==
  /\ Edits < MaxEdits
  /\ jobs # << >>
  /\ files' = [files EXCEPT ![f] = @ + 1]
  /\ proc' = [j \in JobIds |->
        [proc[j] EXCEPT !.stable = FALSE, !.clean = FALSE, !.afterClean = FALSE]]
  /\ UNCHANGED <<config, cache, cacheFiles, vectorDB, jobs>>

Next ==
  \/ \E r \in RepoPaths, force \in BOOLEAN : Index(r, force) /\ UNCHANGED libVars
  \/ \E j \in JobIds : LoadCache(j) /\ UNCHANGED libVars
  \/ \E j \in JobIds : ScanRepo(j) /\ UNCHANGED libVars
  \/ \E j \in JobIds : \E w \in DOMAIN proc[j].worker : WorkerRecv(j, w) /\ UNCHANGED libVars
  \/ \E j \in JobIds : \E w \in DOMAIN proc[j].worker : WorkerCheck(j, w) /\ UNCHANGED libVars
  \/ \E j \in JobIds : \E w \in DOMAIN proc[j].worker : WorkerChunk(j, w) /\ UNCHANGED libVars
  \/ \E j \in JobIds : \E w \in DOMAIN proc[j].worker : WorkerSend(j, w) /\ UNCHANGED libVars
  \/ \E j \in JobIds : \E w \in DOMAIN proc[j].worker : WorkerUpdate(j, w) /\ UNCHANGED libVars
  \/ \E j \in JobIds : \E w \in DOMAIN proc[j].worker : WorkerAdd(j, w) /\ UNCHANGED libVars
  \/ \E j \in JobIds : \E w \in DOMAIN proc[j].worker : WorkerRead(j, w) /\ UNCHANGED libVars
  \/ \E j \in JobIds : \E w \in DOMAIN proc[j].worker : WorkerSetFiles(j, w) /\ UNCHANGED libVars
  \/ \E j \in JobIds : \E w \in DOMAIN proc[j].worker : WorkerSetProgress(j, w) /\ UNCHANGED libVars
  \/ \E j \in JobIds : CollectorRecv(j) /\ UNCHANGED libVars
  \/ \E j \in JobIds : CollectorDone(j) /\ UNCHANGED libVars
  \/ \E j \in JobIds : WaitWorkers(j) /\ UNCHANGED libVars
  \/ \E j \in JobIds : WaitCollector(j) /\ UNCHANGED libVars
  \/ \E j \in JobIds : Embed(j) /\ UNCHANGED libVars
  \/ \E j \in JobIds : Store(j) /\ UNCHANGED libVars
  \/ \E j \in JobIds : SaveCache(j) /\ UNCHANGED libVars
  \/ \E j \in JobIds : Complete(j) /\ UNCHANGED libVars
  \/ \E j \in JobIds : SetEndTime(j) /\ UNCHANGED libVars
  \/ \E j \in JobIds : Deferred(j) /\ UNCHANGED libVars
  \/ \E j \in JobIds : Return(j) /\ UNCHANGED libVars
  \/ \E r \in Repos : GetRepoIndex(r) /\ UNCHANGED libVars
  \/ \E r \in Repos : ClearCache(r) /\ UNCHANGED libVars
  \/ \E f \in Editable : ModifyFile(f) /\ UNCHANGED libVars

Spec == Init /\ [][Next]_vars

TypeOK == Len(jobs) = Len(proc)

\* ============================================ the hash cache file, as JSON
\* Save writes the cache with json.MarshalIndent and Load reads it back with
\* json.Unmarshal.  A path is a sequence of code units: "a" is an ASCII byte,
\* "0xFF" a byte that is not valid UTF-8 (a file name may hold any byte but
\* '/' and NUL), "U+FFFD" the encoding of the Unicode replacement character.
MaxPathLen == 1
MaxEntries == 2

PathUnits == {"a", "0xFF", "U+FFFD"}

Paths == UNION {[1..n -> PathUnits] : n \in 1..MaxPathLen}

\* The first byte of a code unit.
ByteValue(u) == CASE u = "a" -> 97 [] u = "U+FFFD" -> 239 [] u = "0xFF" -> 255

\* strings.Compare(p, q) < 0
RECURSIVE PathLess(_, _)
PathLess(p, q) ==
  IF p = << >> THEN q # << >>
  ELSE IF q = << >> THEN FALSE
  ELSE IF Head(p) = Head(q) THEN PathLess(Tail(p), Tail(q))
  ELSE ByteValue(Head(p)) < ByteValue(Head(q))

\* The keys of a map in the order in which the encoder writes them.
RECURSIVE SortedKeys(_)
SortedKeys(S) ==
  IF S = {} THEN << >>
  ELSE LET m == CHOOSE x \in S : \A y \in S \ {x} : PathLess(x, y)
       IN <<m>> \o SortedKeys(S \ {m})

\* The encoder's string output: every byte that is not valid UTF-8 becomes
\* the replacement character.
appendString(p) == [i \in DOMAIN p |-> IF p[i] = "0xFF" THEN "U+FFFD" ELSE p[i]]

\* json.MarshalIndent of a FileHashCache: the members of "hashes" in key
\* order.  The time stamps are left out.
Marshal(c) ==
  [repo_path |-> appendString(c.RepoPath),
   hashes |-> [i \in 1..Cardinality(DOMAIN c.Hashes) |->
                 LET k == SortedKeys(DOMAIN c.Hashes)[i]
                 IN [key |-> appendString(k),
                     value |-> [path |-> appendString(c.Hashes[k].Path),
                                hash |-> c.Hashes[k].Hash,
                                chunk_count |-> c.Hashes[k].ChunkCount]]]]

\* json.Unmarshal into a FileHashCache: a later member replaces an earlier
\* one of the same key.
RECURSIVE DecodeMembers(_, _)
DecodeMembers(ms, acc) ==
  IF ms = << >> THEN acc
  ELSE DecodeMembers(Tail(ms),
         Put(acc, Head(ms).key,
             [Path |-> Head(ms).value.path, Hash |-> Head(ms).value.hash,
              ChunkCount |-> Head(ms).value.chunk_count]))

Unmarshal(doc) ==
  [RepoPath |-> doc.repo_path, Hashes |-> DecodeMembers(doc.hashes, EmptyMap)]

\* The repository of this manager, the digests of its files' contents and the
\* chunk counts handed to Update.
StoreRepo == <<"a">>
Digests == {"h1", "h2"}
ChunkCounts == {0, 2}

\* No file in the cache directory.
NoFile == [repo_path |-> << >>, hashes |-> << >>]

\* The cache field of a manager that has not loaded anything.
NoCache == [RepoPath |-> << >>, Hashes |-> << >>]

\* store: manager is the FileHashManager in use (a fresh one is made by
\* NewFileHashManager on the same directory), cache its cache field, disk the
\* cache file of StoreRepo.  saved remembers cache.Hashes at the last Save and
\* pc tells whether the last call was a Save ("saved"), a Load that followed
\* a Save directly ("reloaded"), or another call ("open").
NewStore == [pc |-> "open", manager |-> 1, cache |-> NoCache, disk |-> NoFile,
             saved |-> EmptyMap]

\* Load(StoreRepo), by the manager in use or by a fresh one.
StoreLoad(fresh) ==
  /\ store' = [store EXCEPT
        !.manager = IF fresh THEN @ + 1 ELSE @,
        !.cache = IF store.disk = NoFile THEN NewCache(StoreRepo)
                  ELSE Unmarshal(store.disk),
        !.pc = IF store.pc = "saved" THEN "reloaded" ELSE "open"]
  /\ fresh => store.manager < 2

\* Update(path, chunkCount) of a file whose content has digest h.
StoreUpdate(path, h, n) ==
  /\ store.cache # NoCache
  /\ Cardinality(DOMAIN store.cache.Hashes \cup {path}) <= MaxEntries
  /\ store' = [store EXCEPT
        !.cache.Hashes = Put(@, path, [Path |-> path, Hash |-> h, ChunkCount |-> n]),
        !.pc = "open"]

\* Save: an error without a loaded cache.
StoreSave ==
  /\ store.cache # NoCache
  /\ store' = [store EXCEPT !.disk = Marshal(store.cache),
                            !.saved = store.cache.Hashes,
                            !.pc = "saved"]

NextStore ==
  \/ \E fresh \in BOOLEAN : StoreLoad(fresh) /\ UNCHANGED <<indexerVars, server, search, chunking, moreVars>>
  \/ \E path \in Paths, h \in Digests, n \in ChunkCounts :
       StoreUpdate(path, h, n) /\ UNCHANGED <<indexerVars, server, search, chunking, moreVars>>
  \/ StoreSave /\ UNCHANGED <<indexerVars, server, search, chunking, moreVars>>

InitStore ==
  /\ IndexerUnused
  /\ store = NewStore
  /\ server = Unused /\ search = Unused /\ chunking = Unused /\ MoreUnused

SpecStore == InitStore /\ [][NextStore]_vars

\* ===================================== the server's index_codebase handler
\* handleIndexCodebase(ctx, args): one request.  pc is the handler's position
\* ("idle" before the call, "index" inside Indexer.Index, "select" at the
\* select of the poll loop, "returned"), job the job that Index returned,
\* ctxDone whether the caller's context is cancelled, outcome the result.
NewRequest == [pc |-> "idle", job |-> 0, ctxDone |-> FALSE, outcome |-> "none"]

\* The call with its arguments: a missing repo_path is an error result;
\* otherwise Index is called, which in background mode returns at once and
\* the handler answers that indexing has started.
HandleIndexCodebase(repoPath, force) ==
  /\ server.pc = "idle"
  /\ IF repoPath = ""
     THEN /\ server' = [server EXCEPT !.pc = "returned",
                                      !.outcome = "repo_path is required"]
          /\ UNCHANGED indexerVars
     ELSE /\ Index(repoPath, force)
          /\ server' = [server EXCEPT
                !.job = Len(jobs) + 1,
                !.pc = IF config.Background THEN "returned" ELSE "index",
                !.outcome = IF config.Background THEN "started" ELSE "none"]

\* The steps of doIndex, run by Index itself or by its goroutine.
DoIndexStep ==
  \/ \E j \in JobIds : LoadCache(j)
  \/ \E j \in JobIds : ScanRepo(j)
  \/ \E j \in JobIds : \E w \in DOMAIN proc[j].worker : WorkerRecv(j, w)
  \/ \E j \in JobIds : \E w \in DOMAIN proc[j].worker : WorkerCheck(j, w)
  \/ \E j \in JobIds : \E w \in DOMAIN proc[j].worker : WorkerChunk(j, w)
  \/ \E j \in JobIds : \E w \in DOMAIN proc[j].worker : WorkerSend(j, w)
  \/ \E j \in JobIds : \E w \in DOMAIN proc[j].worker : WorkerUpdate(j, w)
  \/ \E j \in JobIds : \E w \in DOMAIN proc[j].worker : WorkerAdd(j, w)
  \/ \E j \in JobIds : \E w \in DOMAIN proc[j].worker : WorkerRead(j, w)
  \/ \E j \in JobIds : \E w \in DOMAIN proc[j].worker : WorkerSetFiles(j, w)
  \/ \E j \in JobIds : \E w \in DOMAIN proc[j].worker : WorkerSetProgress(j, w)
  \/ \E j \in JobIds : CollectorRecv(j)
  \/ \E j \in JobIds : CollectorDone(j)
  \/ \E j \in JobIds : WaitWorkers(j)
  \/ \E j \in JobIds : WaitCollector(j)
  \/ \E j \in JobIds : Embed(j)
  \/ \E j \in JobIds : Store(j)
  \/ \E j \in JobIds : SaveCache(j)
  \/ \E j \in JobIds : Complete(j)
  \/ \E j \in JobIds : SetEndTime(j)
  \/ \E j \in JobIds : Deferred(j)
  \/ \E j \in JobIds : Return(j)

\* Index returns the job once the inline doIndex has returned; the handler
\* makes its ticker and enters the poll loop.
IndexReturns ==
  /\ server.pc = "index"
  /\ proc[server.job].pc = "returned"
  /\ server' = [server EXCEPT !.pc = "select"]
  /\ UNCHANGED indexerVars

\* case <-ctx.Done(): return errorResult("indexing cancelled")
SelectDone ==
  /\ server.pc = "select"
  /\ server.ctxDone
  /\ server' = [server EXCEPT !.pc = "returned", !.outcome = "indexing cancelled"]
  /\ UNCHANGED indexerVars

\* case <-ticker.C: GetJob, and return the job's result when it is terminal.
SelectTick ==
  /\ server.pc = "select"
  /\ server' = IF jobs[server.job].Status \in Terminal
               THEN [server EXCEPT !.pc = "returned",
                                   !.outcome = jobs[server.job].Status]
               ELSE server
  /\ UNCHANGED indexerVars

\* The caller cancels the request's context.
Cancel ==
  /\ server.pc # "returned"
  /\ ~server.ctxDone
  /\ server' = [server EXCEPT !.ctxDone = TRUE]
  /\ UNCHANGED indexerVars

NextServer ==
  \/ \E r \in RepoPaths \cup {""}, force \in BOOLEAN :
       HandleIndexCodebase(r, force) /\ UNCHANGED <<store, search, chunking, moreVars>>
  \/ DoIndexStep /\ UNCHANGED libVars
  \/ IndexReturns /\ UNCHANGED <<store, search, chunking, moreVars>>
  \/ SelectDone /\ UNCHANGED <<store, search, chunking, moreVars>>
  \/ SelectTick /\ UNCHANGED <<store, search, chunking, moreVars>>
  \/ Cancel /\ UNCHANGED <<store, search, chunking, moreVars>>

InitServer ==
  /\ config \in [Background : BOOLEAN, Incremental : BOOLEAN,
                 ParallelWorkers : 1..MaxWorkers]
  /\ NewIndexer
  /\ server = NewRequest
  /\ store = Unused /\ search = Unused /\ chunking = Unused /\ MoreUnused

SpecServer == InitServer /\ [][NextServer]_vars

\* ======================================================= the hybrid searcher
\* Strings are TLA+ strings; the operators below are those of Go's strings
\* package on ASCII text.
UpperCase == "ABCDEFGHIJKLMNOPQRSTUVWXYZ"
LowerCase == "abcdefghijklmnopqrstuvwxyz"

CharAt(s, i) == SubSeq(s, i, i)

\* strings.ToLower
RECURSIVE ToLower(_)
ToLower(s) ==
  IF s = "" THEN ""
  ELSE LET c == CharAt(s, 1)
           up == {i \in 1..Len(UpperCase) : CharAt(UpperCase, i) = c}
       IN (IF up = {} THEN c ELSE CharAt(LowerCase, CHOOSE i \in up : TRUE))
            \o ToLower(SubSeq(s, 2, Len(s)))

\* strings.Index(s, substr): the first byte offset of substr in s, or -1.
MatchesAt(s, substr) ==
  {i \in 0..(Len(s) - Len(substr)) : SubSeq(s, i + 1, i + Len(substr)) = substr}

StringsIndex(s, substr) ==
  IF MatchesAt(s, substr) = {} THEN -1
  ELSE CHOOSE i \in MatchesAt(s, substr) : \A k \in MatchesAt(s, substr) : i <= k

\* strings.Contains
Contains(s, substr) == StringsIndex(s, substr) >= 0

\* strings.HasSuffix
HasSuffix(s, suffix) ==
  Len(s) >= Len(suffix) /\ SubSeq(s, Len(s) - Len(suffix) + 1, Len(s)) = suffix

\* strings.Fields: the maximal runs of characters that are not white space.
RECURSIVE FieldsFrom(_, _, _)
FieldsFrom(s, i, word) ==
  IF i > Len(s) THEN (IF word = "" THEN << >> ELSE <<word>>)
  ELSE IF CharAt(s, i) = " "
       THEN (IF word = "" THEN << >> ELSE <<word>>) \o FieldsFrom(s, i + 1, "")
       ELSE FieldsFrom(s, i + 1, word \o CharAt(s, i))

Fields(s) == FieldsFrom(s, 1, "")

\* isTestFile: directory patterns, then file-name suffixes.
isTestFile(pathLower) ==
  \/ \E d \in {"/test/", "/tests/", "/__tests__/", "/spec/"} : Contains(pathLower, d)
  \/ \E x \in {"_test.go", "_test.js", "_test.ts", ".test.js", ".test.ts",
               ".test.jsx", ".test.tsx", ".spec.js", ".spec.ts", ".spec.jsx",
               ".spec.tsx", "test.java", "tests.java"} : HasSuffix(pathLower, x)

isMainSourceFile(pathLower) ==
  \/ \E d \in {"/src/main/", "/src/core/", "/lib/", "/pkg/", "/internal/"} :
       Contains(pathLower, d)
  \/ Contains(pathLower, "/cmd/") /\ ~Contains(pathLower, "/test")

isGeneratedOrVendor(pathLower) ==
  \E d \in {"/vendor/", "/node_modules/", "/target/", "/build/", "/dist/",
            ".generated.", "_generated."} : Contains(pathLower, d)

\* The multipliers of calculateFilePathScore and the weights of the search
\* configuration, in hundredths.
TestFileScore == 5
MainSourceScore == 130
GeneratedScore == 20
NeutralScore == 100
SemanticWeight == 70
ExactMatchBoost == 150
PartialMatchWeight == 30

\* A path score that looks at the vendor check before the main-source check.
calculateFilePathScore_VendorFirst(filePath) ==
  LET pathLower == ToLower(filePath)
  IN IF isTestFile(pathLower) THEN TestFileScore
     ELSE IF isGeneratedOrVendor(pathLower) THEN GeneratedScore
     ELSE IF isMainSourceFile(pathLower) THEN MainSourceScore
     ELSE NeutralScore

\* calculateFilePathScore: the first check that matches decides.
calculateFilePathScore(filePath) ==
  LET pathLower == ToLower(filePath)
  IN IF isTestFile(pathLower) THEN TestFileScore
     ELSE IF isMainSourceFile(pathLower) THEN MainSourceScore
     ELSE IF isGeneratedOrVendor(pathLower) THEN GeneratedScore
     ELSE NeutralScore

\* Scores are exact fractions.  The scores of one query share a denominator,
\* ScoreUnit(query): a hybrid score h is the number h * ScoreUnit(query).
QueryWords(query) == Fields(ToLower(query))

ScoreUnit(query) ==
  1000000 * (IF QueryWords(query) = << >> THEN 1 ELSE Len(QueryWords(query)))

\* The number of query words longer than two bytes that the content holds.
MatchedWords(query, content) ==
  Cardinality({i \in DOMAIN QueryWords(query) :
                 /\ Len(QueryWords(query)[i]) > 2
                 /\ Contains(ToLower(content), QueryWords(query)[i])})

\* semanticScores[i] * SemanticWeight, for a score in hundredths.
BaseScore(query, semantic) ==
  semantic * SemanticWeight * (ScoreUnit(query) \div 10000)

\* hybridScore += ExactMatchBoost
ExactBoost(query) == ExactMatchBoost * (ScoreUnit(query) \div 100)

\* A boost that multiplies the score instead of adding to it.
WithExactBoost_Multiplied(query, score) == (score * ExactMatchBoost) \div 100

WithExactBoost(query, score) == score + ExactBoost(query)

\* (matchedWords / len(queryWords)) * 0.3, added when a word matched.
PartialBoost(query, content) ==
  IF MatchedWords(query, content) > 0 /\ Len(QueryWords(query)) > 0
  THEN MatchedWords(query, content) * PartialMatchWeight * 10000
  ELSE 0

\* hybridScore *= pathScore
WithPathScore(score, filePath) == (score * calculateFilePathScore(filePath)) \div 100

\* One Search call.  The backend is the VectorDB interface: it answers with
\* any list of chunks and semantic scores (in hundredths), or with an error.
MaxLimit == 2
MaxCandidates == 2
MaxPositions == 3

Queries == {"", "logger", "Logger", "logger get", "is it"}

Candidates ==
  { [Content |-> "This is a test", FilePath |-> "src/Foo", Score |-> 80],
    [Content |-> "Code with logger.info() call", FilePath |-> "src/Bar", Score |-> 60],
    [Content |-> "get logger", FilePath |-> "/repo/tests/Auth_test.ext", Score |-> 100],
    [Content |-> "LOGGER and logger", FilePath |-> "/repo/internal/vendor/x.go", Score |-> 60],
    [Content |-> "it is", FilePath |-> "/repo/vendor/lib_test.go", Score |-> 80],
    [Content |-> "", FilePath |-> "/repo/build/Logger.java", Score |-> 80],
    [Content |-> "a logger", FilePath |-> "/repo/cmd/test_util.go", Score |-> 60] }

CandidateLists == UNION {[1..n -> Candidates] : n \in 0..MaxCandidates}

\* The state of a call: pc is its position, backend the answer of the vector
\* backend, i the index of the candidate being scored, results the results
\* slice, pos and positions the locals of findMatchPositions, out and err the
\* returned values; ranked remembers the results slice as sorted, before it is
\* cut.
NewSearch(query, maxResults, backend) ==
  [pc |-> "embed", query |-> query, maxResults |-> maxResults, backend |-> backend,
   i |-> 0, results |-> << >>, pos |-> 0, positions |-> << >>,
   ranked |-> << >>, out |-> << >>, err |-> "nil"]

\* GenerateEmbedding(query)
SearchEmbed ==
  /\ search.pc = "embed"
  /\ \E ok \in BOOLEAN :
       search' = IF ok THEN [search EXCEPT !.pc = "backend"]
                 ELSE [search EXCEPT !.pc = "returned", !.err = "embedding"]

\* vectorDB.Search(ctx, queryEmbedding, repoPath, MaxResults * 3); no
\* candidate is an empty result.
SearchBackend ==
  /\ search.pc = "backend"
  /\ \E ok \in BOOLEAN :
       search' = IF ~ok THEN [search EXCEPT !.pc = "returned", !.err = "vectordb"]
                 ELSE IF search.backend = << >> THEN [search EXCEPT !.pc = "returned"]
                 ELSE [search EXCEPT !.pc = "score", !.i = 1]

\* The SearchResult of candidate i once its boost is known.  Running and
\* PathScore are the locals hybridScore (before the path adjustment) and
\* pathScore.
Scored(exact, positions, running) ==
  LET c == search.backend[search.i]
  IN [Chunk |-> c, SemanticScore |-> c.Score, ExactMatch |-> exact,
      MatchPositions |-> positions, Running |-> running,
      PathScore |-> calculateFilePathScore(c.FilePath),
      HybridScore |-> WithPathScore(running, c.FilePath)]

\* results[i] = result, and on to the next candidate or to the sort.
StoreResult(r) ==
  [search EXCEPT !.results = Append(@, r),
                 !.i = @ + 1,
                 !.pos = 0, !.positions = << >>,
                 !.pc = IF search.i = Len(search.backend) THEN "sort" ELSE "score"]

\* applyHybridScoring, one candidate: the exact-match test; without an exact
\* match the partial boost, the path adjustment and the result.
ScoreCandidate ==
  /\ search.pc = "score"
  /\ LET c == search.backend[search.i]
         base == BaseScore(search.query, c.Score)
     IN search' =
          IF Contains(ToLower(c.Content), ToLower(search.query))
          THEN [search EXCEPT !.pc = "positions"]
          ELSE StoreResult(Scored(FALSE, << >>,
                                  base + PartialBoost(search.query, c.Content)))

\* findMatchPositions, one iteration of its loop; after the loop the exact
\* boost, the path adjustment and the result.
FindMatchStep ==
  /\ search.pc = "positions"
  /\ LET c == search.backend[search.i]
         content == ToLower(c.Content)
         query == ToLower(search.query)
         idx == StringsIndex(SubSeq(content, search.pos + 1, Len(content)), query)
     IN IF idx = -1
        THEN search' = StoreResult(Scored(TRUE, search.positions,
                          WithExactBoost(search.query, BaseScore(search.query, c.Score))))
        ELSE /\ Len(search.positions) < MaxPositions
             /\ search' = [search EXCEPT !.positions = Append(@, search.pos + idx),
                                         !.pos = search.pos + idx + Len(query)]

\* sort.Slice by HybridScore, descending (the order of equal scores is not
\* fixed), then results[:MaxResults] when there are more.
SortAndLimit ==
  /\ search.pc = "sort"
  /\ \E p \in Permutations(DOMAIN search.results) :
       LET sorted == [k \in DOMAIN search.results |-> search.results[p[k]]]
       IN /\ \A k \in 1..(Len(sorted) - 1) :
               sorted[k].HybridScore >= sorted[k + 1].HybridScore
          /\ search' = [search EXCEPT
                !.results = IF Len(sorted) > search.maxResults
                            THEN SubSeq(sorted, 1, search.maxResults) ELSE sorted,
                !.ranked = sorted,
                !.pc = "log"]

\* log.Printf(..., results[0].HybridScore); return results, nil.  Indexing an
\* empty slice panics.
LogAndReturn ==
  /\ search.pc = "log"
  /\ search' = IF search.results = << >> THEN [search EXCEPT !.pc = "panic"]
               ELSE [search EXCEPT !.pc = "returned", !.out = search.results]

NextSearch ==
  \/ SearchEmbed /\ UNCHANGED <<indexerVars, server, store, chunking, moreVars>>
  \/ SearchBackend /\ UNCHANGED <<indexerVars, server, store, chunking, moreVars>>
  \/ ScoreCandidate /\ UNCHANGED <<indexerVars, server, store, chunking, moreVars>>
  \/ FindMatchStep /\ UNCHANGED <<indexerVars, server, store, chunking, moreVars>>
  \/ SortAndLimit /\ UNCHANGED <<indexerVars, server, store, chunking, moreVars>>
  \/ LogAndReturn /\ UNCHANGED <<indexerVars, server, store, chunking, moreVars>>

InitSearch ==
  /\ IndexerUnused
  /\ search \in {NewSearch(q, m, l) :
                   q \in Queries, m \in 0..MaxLimit, l \in CandidateLists}
  /\ server = Unused /\ store = Unused /\ chunking = Unused /\ MoreUnused

SpecSearch == InitSearch /\ [][NextSearch]_vars

\* ---------------------------------------------------------------------
\* The token chunker (internal/indexer/token_chunker.go).  A file is the
\* sequence of its lines, as strings.Split(content, "\n") yields them.

MaxLines == 4

\* sample lines of a Go file: a blank line, a statement, a declaration
\* that IsBoundary matches, and a longer statement
SourceLines == {"", "x := 1", "func f() {", "return compute(alpha, beta)"}

\* len(tc.tokenizer.Encode(line, nil, nil)) for the sample lines
Encode(line) ==
  CASE line = "" -> 0
    [] line = "x := 1" -> 4
    [] line = "func f() {" -> 5
    [] OTHER -> 7

\* the "go" patterns of GetLanguagePatterns: ^\s*func\s+\w+ matches
IsBoundary(line) == Len(line) >= 5 /\ SubSeq(line, 1, 5) = "func "

TokenFiles == UNION {[1..n -> SourceLines] : n \in 1..MaxLines}

TokenLimits == {[maxTokens |-> 6, overlap |-> 0],
                [maxTokens |-> 8, overlap |-> 3],
                [maxTokens |-> 12, overlap |-> 5],
                [maxTokens |-> 6, overlap |-> 8],
                [maxTokens |-> 0, overlap |-> 0],
                [maxTokens |-> -1, overlap |-> 20]}

BoundaryLookahead == 10
maxChunkSize == 4000

RECURSIVE Join(_)
Join(ls) ==
  IF Len(ls) = 0 THEN ""
  ELSE IF Len(ls) = 1 THEN ls[1]
  ELSE ls[1] \o "\n" \o Join(Tail(ls))

RECURSIVE SumTokens(_)
SumTokens(ls) == IF Len(ls) = 0 THEN 0 ELSE Encode(Head(ls)) + SumTokens(Tail(ls))

\* tokens of the joined text: those of the lines and one per line break
countTokens(ls) == SumTokens(ls) + (IF Len(ls) > 1 THEN Len(ls) - 1 ELSE 0)

IsSpace(s) == \A k \in 1..Len(s) : CharAt(s, k) \in {" ", "\n", "\t"}

NoChunk == [nil |-> TRUE]

createChunk_AsFile(ls, startLine) ==
  LET content == Join(ls)
  IN  IF IsSpace(content) THEN NoChunk
      ELSE [nil |-> FALSE, ChunkType |-> "file", Content |-> content,
            Text |-> content, StartLine |-> 1, EndLine |-> Len(ls)]

createChunk(ls, startLine) ==
  LET content == Join(ls)
  IN  IF IsSpace(content) THEN NoChunk
      ELSE [nil |-> FALSE,
            ChunkType |-> "function",
            Content |-> IF Len(content) > maxChunkSize
                        THEN SubSeq(content, 1, maxChunkSize) ELSE content,
            Text |-> content,
            StartLine |-> startLine,
            EndLine |-> startLine + Len(ls) - 1]

AppendChunk(chunks, chunk) == IF chunk.nil THEN chunks ELSE Append(chunks, chunk)

\* walks back from the last line while the overlap is below overlapTokens
RECURSIVE OverlapFrom(_, _, _, _)
OverlapFrom(ls, k, currentOverlap, overlapTokens) ==
  IF k >= 1 /\ currentOverlap < overlapTokens
  THEN OverlapFrom(ls, k - 1, currentOverlap + Encode(ls[k]), overlapTokens)
  ELSE SubSeq(ls, k + 1, Len(ls))

calculateOverlapLines(ls, overlapTokens) ==
  IF Len(ls) = 0 \/ overlapTokens <= 0 THEN << >>
  ELSE OverlapFrom(ls, Len(ls), 0, overlapTokens)

\* chunkWithLimits up to the loop: i counts the lines already consumed
NewTokenChunking(lines, limits) ==
  [pc |-> "loop", lines |-> lines,
   maxTokens |-> limits.maxTokens, overlap |-> limits.overlap,
   i |-> 0, currentLines |-> << >>, currentTokens |-> 0, startLine |-> 1,
   chunks |-> << >>]

Overflows ==
  /\ chunking.pc = "loop"
  /\ chunking.i < Len(chunking.lines)
  /\ chunking.currentTokens + Encode(chunking.lines[chunking.i + 1]) > chunking.maxTokens
  /\ Len(chunking.currentLines) > 0

\* the 0-based indexes j of the look-ahead that hold a boundary
Boundaries ==
  {j \in chunking.i..(chunking.i + BoundaryLookahead - 1) :
     j < Len(chunking.lines) /\ IsBoundary(chunking.lines[j + 1])}

FirstBoundary == CHOOSE j \in Boundaries : \A k \in Boundaries : j <= k

\* one pass of the loop in which the line fits: lines 108-111
AddLine ==
  /\ chunking.pc = "loop"
  /\ chunking.i < Len(chunking.lines)
  /\ ~Overflows
  /\ LET line == chunking.lines[chunking.i + 1]
     IN  chunking' = [chunking EXCEPT
           !.currentLines = Append(@, line),
           !.currentTokens = @ + Encode(line),
           !.i = @ + 1]
  /\ UNCHANGED <<indexerVars, server, store, search, moreVars>>

\* one pass in which the line does not fit and no boundary is ahead:
\* the chunk is closed, the overlap kept, and the line added (74-111)
FlushChunk ==
  /\ Overflows
  /\ Boundaries = {}
  /\ LET line == chunking.lines[chunking.i + 1]
         chunk == createChunk(chunking.currentLines, chunking.startLine)
         overlapLines == calculateOverlapLines(chunking.currentLines, chunking.overlap)
     IN  chunking' = [chunking EXCEPT
           !.chunks = AppendChunk(@, chunk),
           !.currentLines = Append(overlapLines, line),
           !.currentTokens = countTokens(overlapLines) + Encode(line),
           !.startLine = chunking.i - Len(overlapLines),
           !.i = @ + 1]
  /\ UNCHANGED <<indexerVars, server, store, search, moreVars>>

\* one pass in which the line does not fit and a boundary is ahead: the
\* chunk is extended to the boundary, closed, and the loop continues
FlushAtBoundary ==
  /\ Overflows
  /\ Boundaries # {}
  /\ LET j == FirstBoundary
         extended == chunking.currentLines \o SubSeq(chunking.lines, chunking.i + 1, j + 1)
         chunk == createChunk(extended, chunking.startLine)
         overlapLines == calculateOverlapLines(extended, chunking.overlap)
     IN  chunking' = [chunking EXCEPT
           !.chunks = AppendChunk(@, chunk),
           !.currentLines = overlapLines,
           !.currentTokens = countTokens(overlapLines),
           !.startLine = (j + 1) - Len(overlapLines),
           !.i = j + 1]
  /\ UNCHANGED <<indexerVars, server, store, search, moreVars>>

\* after the loop: the remaining lines become the last chunk (114-122)
RemainingChunk ==
  /\ chunking.pc = "loop"
  /\ chunking.i >= Len(chunking.lines)
  /\ chunking' = [chunking EXCEPT
       !.pc = "returned",
       !.chunks = IF Len(chunking.currentLines) > 0
                  THEN AppendChunk(@, createChunk(chunking.currentLines, chunking.startLine))
                  ELSE @]
  /\ UNCHANGED <<indexerVars, server, store, search, moreVars>>

NextTokenChunker == AddLine \/ FlushChunk \/ FlushAtBoundary \/ RemainingChunk

InitTokenChunker ==
  /\ IndexerUnused
  /\ server = Unused /\ store = Unused /\ search = Unused /\ MoreUnused
  /\ chunking \in {NewTokenChunking(f, l) : f \in TokenFiles, l \in TokenLimits}

SpecTokenChunker == InitTokenChunker /\ [][NextTokenChunker]_vars

\* ---------------------------------------------------------------------
\* The AST chunker (internal/indexer/ast_chunker.go).  The tree that
\* Tree-sitter parses from a file is data here: a node has its type, its
\* name (the text of its identifier child), its first line and the byte
\* lengths of its source lines; a class node also lists its method nodes.
\* A chunk's Content is a byte range of the node's source: From is its
\* offset in the node, Len its length.

MaxMethods == 2

minChunkSizeBytes == 10
defaultMaxChunkSizeBytes == 4000
classSignatureMaxLines == 50
classSummaryMaxMethods == 20
methodSignatureMaxLength == 100
overlapLinesRatio == 10
maxOverlapLines == 10
minOverlapLines == 1

Min(a, b) == IF a < b THEN a ELSE b
Max(a, b) == IF a > b THEN a ELSE b

\* bodies of a method or function, as the byte lengths of their lines: one
\* below minChunkSizeBytes, a small one, one of 1603 bytes and one of 5001
ASTBodies == {<<6>>, <<30, 40, 1>>, <<400, 400, 400, 400>>, <<2500, 2500>>}

\* Offset(ls, k): the bytes of the first k lines, each with its line break
RECURSIVE Offset(_, _)
Offset(ls, k) == IF k = 0 THEN 0 ELSE Offset(ls, k - 1) + ls[k] + 1

\* int(endByte - startByte) of a node: its lines joined by line breaks
NodeBytes(node) == Offset(node.lines, Len(node.lines)) - 1

RECURSIVE Flatten(_)
Flatten(ss) == IF Len(ss) = 0 THEN << >> ELSE Head(ss) \o Flatten(Tail(ss))

\* a Java class: its declaration line, its methods, its closing brace
MethodNode(body, startLine) ==
  [type |-> "method_declaration", name |-> "method", startLine |-> startLine,
   lines |-> body, methods |-> << >>]

RECURSIVE MethodNodes(_, _)
MethodNodes(bodies, startLine) ==
  IF Len(bodies) = 0 THEN << >>
  ELSE <<MethodNode(Head(bodies), startLine)>>
       \o MethodNodes(Tail(bodies), startLine + Len(Head(bodies)))

ClassNode(bodies) ==
  [type |-> "class_declaration", name |-> "LargeService", startLine |-> 1,
   lines |-> <<30>> \o Flatten(bodies) \o <<1>>,
   methods |-> MethodNodes(bodies, 2)]

FunctionNode(body) ==
  [type |-> "function_declaration", name |-> "handler", startLine |-> 1,
   lines |-> body, methods |-> << >>]

classNodeTypes == {"class_declaration", "interface_declaration", "enum_declaration"}

functionNodeTypes ==
  {"function_declaration", "method_declaration", "method_definition",
   "constructor_declaration", "arrow_function", "function_expression"}

getSemanticNodeTypes(language) ==
  CASE language = "java" ->
         {"class_declaration", "interface_declaration", "enum_declaration",
          "method_declaration", "constructor_declaration"}
    [] language = "javascript" ->
         {"function_declaration", "class_declaration", "method_definition",
          "arrow_function", "function_expression"}
    [] language = "typescript" ->
         {"function_declaration", "class_declaration", "interface_declaration",
          "type_alias_declaration", "method_definition", "arrow_function"}
    [] OTHER -> {"function_declaration", "class_declaration", "method_declaration"}

\* the parsers of initializeParsers
CanParseLanguage(language) == language \in {"java", "javascript", "typescript"}

\* the nodes walkTree hands to its callback, parents before children
RECURSIVE walkTree(_, _)
walkTree(nodes, nodeTypes) ==
  IF Len(nodes) = 0 THEN << >>
  ELSE LET node == Head(nodes)
       IN  (IF node.type \in nodeTypes THEN <<node>> ELSE << >>)
           \o walkTree(node.methods, nodeTypes)
           \o walkTree(Tail(nodes), nodeTypes)

extractNodeName(node) == node.name

NilChunk == [nil |-> TRUE]

createChunkFromNode(node, nodeType, id) ==
  IF NodeBytes(node) <= 0 \/ NodeBytes(node) < minChunkSizeBytes THEN NilChunk
  ELSE [nil |-> FALSE, ID |-> id, ChunkType |-> "function",
        From |-> 0, Len |-> Min(NodeBytes(node), defaultMaxChunkSizeBytes),
        StartLine |-> node.startLine,
        EndLine |-> node.startLine + Len(node.lines) - 1,
        FunctionName |-> IF nodeType \in functionNodeTypes
                         THEN extractNodeName(node) ELSE "",
        ClassName |-> IF nodeType \in classNodeTypes \/ nodeType = "type_alias_declaration"
                      THEN extractNodeName(node) ELSE "",
        ParentChunkID |-> 0,
        Node |-> node.startLine]

\* strings.Split(chunk.Content, "\n"): the lines of the first n bytes
RECURSIVE SplitLines(_, _)
SplitLines(ls, n) ==
  IF Len(ls) = 0 THEN << >>
  ELSE IF Len(ls) = 1 \/ ls[1] >= n THEN <<Min(ls[1], n)>>
  ELSE <<ls[1]>> \o SplitLines(Tail(ls), n - ls[1] - 1)

OverlapLineCount(n) ==
  IF n \div overlapLinesRatio < minOverlapLines THEN minOverlapLines
  ELSE IF n \div overlapLinesRatio > maxOverlapLines THEN maxOverlapLines
  ELSE n \div overlapLinesRatio

\* the loop of splitLargeChunk and its final chunk: i lines are written,
\* the current piece began at byte from and at line currentStartLine
RECURSIVE SplitLoop(_, _, _, _, _, _, _)
SplitLoop(chunk, ls, maxSize, i, from, currentStartLine, acc) ==
  IF i = Len(ls)
  THEN IF Offset(ls, i) - from > 0
       THEN Append(acc, [chunk EXCEPT !.From = from,
                           !.Len = Min(Offset(ls, i) - from, maxSize),
                           !.StartLine = currentStartLine])
       ELSE acc
  ELSE IF Offset(ls, i + 1) - from > maxSize /\ i < Len(ls) - 1
  THEN LET overlapStart == Max(i - OverlapLineCount(Len(ls)), 0)
       IN  SplitLoop(chunk, ls, maxSize, i + 1, Offset(ls, overlapStart),
                     chunk.StartLine + overlapStart,
                     Append(acc, [chunk EXCEPT !.From = from,
                                    !.Len = maxSize,
                                    !.StartLine = currentStartLine,
                                    !.EndLine = chunk.StartLine + i]))
  ELSE SplitLoop(chunk, ls, maxSize, i + 1, from, currentStartLine, acc)

\* every piece gets an id of its own: id, id + 1, ...
WithIDs(pieces, id) == [k \in DOMAIN pieces |-> [pieces[k] EXCEPT !.ID = id + k - 1]]

splitLargeChunk_DropsParent(chunk, node, maxSize, id) ==
  WithIDs([k \in DOMAIN SplitLoop(chunk, SplitLines(node.lines, chunk.Len), maxSize,
                                  0, 0, chunk.StartLine, << >>) |->
             [SplitLoop(chunk, SplitLines(node.lines, chunk.Len), maxSize,
                        0, 0, chunk.StartLine, << >>)[k] EXCEPT !.ParentChunkID = 0]], id)

splitLargeChunk(chunk, node, maxSize, id) ==
  WithIDs(SplitLoop(chunk, SplitLines(node.lines, chunk.Len), maxSize,
                    0, 0, chunk.StartLine, << >>), id)

isLargeClassOrInterface(node, nodeType, maxSize) ==
  nodeType \in classNodeTypes /\ NodeBytes(node) > maxSize

\* the method and constructor nodes of a Java class body
extractMethodNodes(classNode) ==
  SelectSeq(classNode.methods,
            LAMBDA m : m.type \in {"method_declaration", "constructor_declaration"})

\* "// - <first line of the method>\n", the line cut at 100 bytes
RECURSIVE MethodListBytes(_, _)
MethodListBytes(methodNodes, i) ==
  IF i > Len(methodNodes) THEN 0
  ELSE IF i > classSummaryMaxMethods
  THEN 25 + (IF Len(methodNodes) - classSummaryMaxMethods < 10 THEN 1 ELSE 2)
  ELSE (IF extractNodeName(methodNodes[i]) # ""
        THEN 5 + (IF methodNodes[i].lines[1] > methodSignatureMaxLength
                  THEN methodSignatureMaxLength + 3
                  ELSE methodNodes[i].lines[1]) + 1
        ELSE 0)
       + MethodListBytes(methodNodes, i + 1)

\* the length of createClassSummary's text: the lines before the first
\* method (at most 51), then the list of the methods
createClassSummary(node) ==
  LET signatureEnd == IF Len(node.methods) > 0 THEN 1
                      ELSE Min(Len(node.lines), classSignatureMaxLines + 1)
      methodNodes == extractMethodNodes(node)
  IN  Offset(node.lines, signatureEnd)
      + (IF Len(methodNodes) > 0 THEN 13 + MethodListBytes(methodNodes, 1) ELSE 0)

\* the loop of createHierarchicalChunks over the method nodes
RECURSIVE MethodChunks(_, _, _, _, _, _)
MethodChunks(methodNodes, className, summaryChunkID, maxSize, id, acc) ==
  IF Len(methodNodes) = 0 THEN acc
  ELSE LET made == createChunkFromNode(Head(methodNodes), "method_declaration", id)
           methodChunk == [made EXCEPT !.ParentChunkID = summaryChunkID,
                                       !.ChunkType = "method",
                                       !.ClassName = className]
           added == IF made.nil THEN << >>
                    ELSE IF methodChunk.Len > maxSize
                    THEN splitLargeChunk(methodChunk, Head(methodNodes), maxSize, id)
                    ELSE <<methodChunk>>
       IN  MethodChunks(Tail(methodNodes), className, summaryChunkID, maxSize,
                        id + Len(added), acc \o added)

createHierarchicalChunks(node, maxSize, id) ==
  LET className == extractNodeName(node)
      summaryChunk == [nil |-> FALSE, ID |-> id, ChunkType |-> "class",
                       From |-> 0, Len |-> Min(createClassSummary(node), maxSize),
                       StartLine |-> node.startLine,
                       EndLine |-> node.startLine + Len(node.lines) - 1,
                       FunctionName |-> "", ClassName |-> className,
                       ParentChunkID |-> 0, Node |-> node.startLine]
  IN  MethodChunks(extractMethodNodes(node), className, id, maxSize, id + 1,
                   <<summaryChunk>>)

\* maxChunkSize of extractSemanticNodes
MaxChunkSize(cfg) ==
  IF cfg.MaxChunkSizeBytes = 0 THEN defaultMaxChunkSizeBytes ELSE cfg.MaxChunkSizeBytes

\* uuid.New() never repeats an id: a chunk's id is its place in the list
NextID(chunks) == Len(chunks) + 1

\* ---------------------------------------------------------------------
\* Chunker.ChunkFile: the AST strategy where a parser exists and yields
\* chunks, the token chunker otherwise.

DefaultMaxTokens == 200
DefaultOverlapTokens == 20
SmallFileLineThreshold == 1000
MediumFileLineThreshold == 5000
SmallFileOverlapRatio == 15
MediumFileOverlapRatio == 10
LargeFileOverlapRatio == 7

\* a file on disk: the language of its extension ("" when the detector
\* knows none), whether it can be read, its tree and its lines of text
SourceFile(language, readable, nodes, text) ==
  [language |-> language, readable |-> readable, nodes |-> nodes, text |-> text]

ClassBodies == UNION {[1..n -> ASTBodies] : n \in 0..MaxMethods}

\* Java classes and JavaScript functions (their text is not listed when
\* the tree yields a chunk), files without any semantic node, Go files
ChunkFiles ==
  {SourceFile("java", TRUE, <<ClassNode(b)>>, << >>) : b \in ClassBodies}
  \cup {SourceFile("javascript", TRUE, <<FunctionNode(b)>>,
                   IF b = <<6>> THEN <<"f(1);">> ELSE << >>) : b \in ASTBodies}
  \cup {SourceFile("java", TRUE, << >>, <<"import a.b;", "import a.c;">>),
        SourceFile("java", FALSE, << >>, << >>),
        SourceFile("", TRUE, << >>, <<"x := 1">>)}
  \cup {SourceFile("go", TRUE, << >>, t) : t \in TokenFiles}

ChunkingConfigs ==
  [EnableHierarchicalChunking : BOOLEAN,
   MaxChunkSizeBytes : {0, 1000, 4000},
   SmallFileMaxTokens : {0, 8},
   MediumFileMaxTokens : {200},
   LargeFileMaxTokens : {150}]

RECURSIVE CountLines(_)
CountLines(nodes) ==
  IF Len(nodes) = 0 THEN 0 ELSE Len(Head(nodes).lines) + CountLines(Tail(nodes))

\* strings.Count(fileContent, "\n") + 1
FileLines(file) ==
  IF Len(file.text) > 0 THEN Len(file.text) ELSE Max(CountLines(file.nodes), 1)

calculateOptimalChunkSize(cfg, fileLines) ==
  IF cfg.SmallFileMaxTokens > 0
  THEN IF fileLines < SmallFileLineThreshold
       THEN [maxTokens |-> cfg.SmallFileMaxTokens,
             overlap |-> cfg.SmallFileMaxTokens \div SmallFileOverlapRatio]
       ELSE IF fileLines < MediumFileLineThreshold
       THEN [maxTokens |-> cfg.MediumFileMaxTokens,
             overlap |-> cfg.MediumFileMaxTokens \div MediumFileOverlapRatio]
       ELSE [maxTokens |-> cfg.LargeFileMaxTokens,
             overlap |-> cfg.LargeFileMaxTokens \div LargeFileOverlapRatio]
  ELSE [maxTokens |-> DefaultMaxTokens, overlap |-> DefaultOverlapTokens]

NewChunkFile(file, cfg) ==
  [pc |-> "call", file |-> file, cfg |-> cfg, strategy |-> "", err |-> "",
   walk |-> << >>, lines |-> << >>, maxTokens |-> 0, overlap |-> 0,
   i |-> 0, currentLines |-> << >>, currentTokens |-> 0, startLine |-> 1,
   chunks |-> << >>]

\* ChunkByTokensWithLimits(..., maxTokens, overlapTokens) begins
StartTokens ==
  LET limits == calculateOptimalChunkSize(chunking.cfg, FileLines(chunking.file))
  IN  [chunking EXCEPT !.pc = "loop", !.strategy = "token",
         !.lines = chunking.file.text,
         !.maxTokens = limits.maxTokens, !.overlap = limits.overlap,
         !.i = 0, !.currentLines = << >>, !.currentTokens = 0,
         !.startLine = 1, !.chunks = << >>]

\* an unknown extension or a failing os.ReadFile: an error, no chunks
ChunkFileFails ==
  /\ chunking.pc = "call"
  /\ chunking.file.language = "" \/ ~chunking.file.readable
  /\ chunking' = [chunking EXCEPT !.pc = "done",
                    !.err = IF chunking.file.language = ""
                            THEN "unsupported file type"
                            ELSE "failed to read file"]
  /\ UNCHANGED <<indexerVars, server, store, search, moreVars>>

\* a file of white space only: nil, nil
ChunkFileSkipsEmpty ==
  /\ chunking.pc = "call"
  /\ chunking.file.language # "" /\ chunking.file.readable
  /\ chunking.file.nodes = << >> /\ IsSpace(Join(chunking.file.text))
  /\ chunking' = [chunking EXCEPT !.pc = "done"]
  /\ UNCHANGED <<indexerVars, server, store, search, moreVars>>

HasContent ==
  /\ chunking.pc = "call"
  /\ chunking.file.language # "" /\ chunking.file.readable
  /\ ~(chunking.file.nodes = << >> /\ IsSpace(Join(chunking.file.text)))

\* strategy 1: ChunkByAST parses the file and starts the walk
ChunkByAST ==
  /\ HasContent
  /\ CanParseLanguage(chunking.file.language)
  /\ chunking' = [chunking EXCEPT !.pc = "walk", !.strategy = "ast",
                    !.walk = walkTree(chunking.file.nodes,
                                      getSemanticNodeTypes(chunking.file.language))]
  /\ UNCHANGED <<indexerVars, server, store, search, moreVars>>

\* strategy 2 at once: no parser for the language
ChunkByTokens ==
  /\ HasContent
  /\ ~CanParseLanguage(chunking.file.language)
  /\ chunking' = StartTokens
  /\ UNCHANGED <<indexerVars, server, store, search, moreVars>>

Visiting == chunking.pc = "walk" /\ Len(chunking.walk) > 0

\* the callback of extractSemanticNodes on a large class or interface
VisitHierarchical ==
  /\ Visiting
  /\ LET node == Head(chunking.walk)
         maxSize == MaxChunkSize(chunking.cfg)
     IN  /\ chunking.cfg.EnableHierarchicalChunking
         /\ isLargeClassOrInterface(node, node.type, maxSize)
         /\ chunking' = [chunking EXCEPT
              !.walk = Tail(@),
              !.chunks = @ \o createHierarchicalChunks(node, maxSize,
                                                       NextID(chunking.chunks))]
  /\ UNCHANGED <<indexerVars, server, store, search, moreVars>>

Regular ==
  /\ Visiting
  /\ ~(/\ chunking.cfg.EnableHierarchicalChunking
       /\ isLargeClassOrInterface(Head(chunking.walk), Head(chunking.walk).type,
                                  MaxChunkSize(chunking.cfg)))

\* the callback on any other node whose chunk is within the ceiling, or
\* is nil
VisitNode ==
  /\ Regular
  /\ LET node == Head(chunking.walk)
         chunk == createChunkFromNode(node, node.type, NextID(chunking.chunks))
     IN  /\ IF chunk.nil THEN TRUE ELSE chunk.Len <= MaxChunkSize(chunking.cfg)
         /\ chunking' = [chunking EXCEPT
              !.walk = Tail(@),
              !.chunks = IF chunk.nil THEN @ ELSE Append(@, chunk)]
  /\ UNCHANGED <<indexerVars, server, store, search, moreVars>>

\* the callback on a node whose chunk is above the ceiling
VisitOversized ==
  /\ Regular
  /\ LET node == Head(chunking.walk)
         chunk == createChunkFromNode(node, node.type, NextID(chunking.chunks))
     IN  /\ IF chunk.nil THEN FALSE ELSE chunk.Len > MaxChunkSize(chunking.cfg)
         /\ chunking' = [chunking EXCEPT
              !.walk = Tail(@),
              !.chunks = @ \o splitLargeChunk(chunk, node, MaxChunkSize(chunking.cfg),
                                              NextID(chunking.chunks))]
  /\ UNCHANGED <<indexerVars, server, store, search, moreVars>>

\* ChunkByAST has returned its list
ASTReturned == chunking.pc = "walk" /\ Len(chunking.walk) = 0

ReturnASTChunks ==
  /\ ASTReturned
  /\ Len(chunking.chunks) > 0
  /\ chunking' = [chunking EXCEPT !.pc = "done"]
  /\ UNCHANGED <<indexerVars, server, store, search, moreVars>>

\* an empty list from the tree: strategy 2 after all
FallBackToTokens ==
  /\ ASTReturned
  /\ Len(chunking.chunks) = 0
  /\ chunking' = StartTokens
  /\ UNCHANGED <<indexerVars, server, store, search, moreVars>>

ReturnTokenChunks ==
  /\ chunking.pc = "returned"
  /\ chunking' = [chunking EXCEPT !.pc = "done"]
  /\ UNCHANGED <<indexerVars, server, store, search, moreVars>>

NextChunkFile ==
  \/ ChunkFileFails
  \/ ChunkFileSkipsEmpty
  \/ ChunkByAST
  \/ ChunkByTokens
  \/ VisitHierarchical
  \/ VisitNode
  \/ VisitOversized
  \/ ReturnASTChunks
  \/ FallBackToTokens
  \/ AddLine
  \/ FlushChunk
  \/ FlushAtBoundary
  \/ RemainingChunk
  \/ ReturnTokenChunks

InitChunkFile ==
  /\ IndexerUnused
  /\ server = Unused /\ store = Unused /\ search = Unused /\ MoreUnused
  /\ chunking \in {NewChunkFile(f, c) : f \in ChunkFiles, c \in ChunkingConfigs}

SpecChunkFile == InitChunkFile /\ [][NextChunkFile]_vars
\* ---------------------------------------------------------------------
\* The scanner (internal/indexer/scanner.go), the ignore matcher
\* (pkg/ignore/patterns.go) and the language detector
\* (internal/indexer/languages.go).  A repository is its root directory
\* (the last element of the path given to Scan) and a set of entries below
\* it; a path relative to the root is the sequence of its elements, "."
\* for the root itself.  filepath.WalkDir calls the callback in lexical
\* order, a directory before its entries; it calls it a second time, with
\* an error, for a directory it cannot list.
MaxFileSizeMB == 1

maxFileSizeBytes == MaxFileSizeMB * 1024 * 1024

\* the ignore patterns: "name/**" and "*suffix"
IgnorePatterns == << [text |-> "target/**", tree |-> TRUE,  name |-> "target"],
                     [text |-> "*.iml",     tree |-> FALSE, suffix |-> ".iml"] >>

RootNames == {"repo", ".dotfiles"}

\* what may lie below the root: files with their directory, size and
\* whether lstat succeeds on them, and a directory that cannot be listed
ScanEntries ==
  { [dir |-> << >>,               name |-> "main.go",   isDir |-> FALSE, size |-> 10, ok |-> TRUE],
    [dir |-> << >>,               name |-> "mod.iml",   isDir |-> FALSE, size |-> 10, ok |-> TRUE],
    [dir |-> << >>,               name |-> "notes.txt", isDir |-> FALSE, size |-> 10, ok |-> TRUE],
    [dir |-> << >>,               name |-> "big.go",    isDir |-> FALSE, size |-> maxFileSizeBytes + 1, ok |-> TRUE],
    [dir |-> << >>,               name |-> ".lint.js",  isDir |-> FALSE, size |-> 10, ok |-> TRUE],
    [dir |-> <<"src">>,           name |-> "app.TS",    isDir |-> FALSE, size |-> maxFileSizeBytes, ok |-> TRUE],
    [dir |-> <<"src">>,           name |-> "gone.go",   isDir |-> FALSE, size |-> 10, ok |-> FALSE],
    [dir |-> <<"src">>,           name |-> "locked",    isDir |-> TRUE,  size |-> 0,  ok |-> FALSE],
    [dir |-> <<".git">>,          name |-> "hook.js",   isDir |-> FALSE, size |-> 10, ok |-> TRUE],
    [dir |-> <<"target">>,        name |-> "Out.java",  isDir |-> FALSE, size |-> 10, ok |-> TRUE],
    [dir |-> <<"src", "target">>, name |-> "gen.go",    isDir |-> FALSE, size |-> 10, ok |-> TRUE],
    [dir |-> <<"src", ".cache">>, name |-> "tmp.go",    isDir |-> FALSE, size |-> 10, ok |-> TRUE] }

\* the names in the order of os.ReadDir
NameOrder == << ".cache", ".git", ".lint.js", "Out.java", "app.TS", "big.go",
                "gen.go", "gone.go", "hook.js", "locked", "main.go", "mod.iml",
                "notes.txt", "src", "target", "tmp.go" >>

\* filepath.Ext: the suffix from the last dot of the last element on
RECURSIVE Ext(_)
Ext(name) ==
  IF name = "" THEN ""
  ELSE LET rest == Ext(SubSeq(name, 2, Len(name)))
       IN  IF rest # "" THEN rest
           ELSE IF CharAt(name, 1) = "." THEN name ELSE ""

extMap ==
  [ext \in {".java", ".ts", ".tsx", ".js", ".jsx", ".mjs", ".cjs", ".go"} |->
     CASE ext = ".java" -> "java"
       [] ext \in {".ts", ".tsx"} -> "typescript"
       [] ext \in {".js", ".jsx", ".mjs", ".cjs"} -> "javascript"
       [] OTHER -> "go"]

\* LanguageDetector.IsSupported, by Detect
IsSupported(name) ==
  LET ext == ToLower(Ext(name))
  IN  ext # "" /\ ext \in DOMAIN extMap

\* Matcher.matchPattern on a relative path
matchPattern(path, pattern) ==
  LET filename == path[Len(path)]
  IN  IF pattern.tree
      THEN \* "name/**": the prefix test, the tests of the parts, then
           \* filepath.Match on the path, and the parent directories
           \/ path[1] = pattern.name
           \/ \E k \in 1..Len(path) : path[k] = pattern.name
           \/ Len(path) = 2 /\ path[1] = pattern.name
           \/ \E k \in 1..(Len(path) - 1) : path[k] = pattern.name
      ELSE \* "*suffix": filepath.Match on the path, on the file name, and
           \* the parent directories against the pattern's text
           \/ Len(path) = 1 /\ HasSuffix(path[1], pattern.suffix)
           \/ HasSuffix(filename, pattern.suffix)
           \/ \E k \in 1..(Len(path) - 1) : path[k] = pattern.text

\* Matcher.ShouldIgnore
ShouldIgnore(path) ==
  \E k \in DOMAIN IgnorePatterns : matchPattern(path, IgnorePatterns[k])

\* Scanner.shouldIgnoreDir
shouldIgnoreDir(relPath, dirName) ==
  IF CharAt(dirName, 1) = "." /\ dirName # "." THEN TRUE
  ELSE ShouldIgnore(relPath)

\* the directories of a tree: those on the way to an entry, and the
\* entries that are directories
TreeDirs(tree) ==
  UNION {{SubSeq(e.dir, 1, k) : k \in 1..Len(e.dir)} : e \in tree}
    \cup {e.dir \o <<e.name>> : e \in {x \in tree : x.isDir}}

\* filepath.WalkDir: the calls of the callback below directory d, names
\* from position k of the listing on
RECURSIVE walkDir(_, _, _)
walkDir(tree, d, k) ==
  IF k > Len(NameOrder) THEN << >>
  ELSE LET name == NameOrder[k]
           path == d \o <<name>>
           here == {e \in tree : e.dir = d /\ e.name = name}
       IN  (IF path \in TreeDirs(tree)
            THEN <<[rel |-> path, name |-> name, isDir |-> TRUE, err |-> FALSE,
                    size |-> 0, ok |-> TRUE]>>
                 \o (IF \E e \in here : ~e.ok
                     THEN <<[rel |-> path, name |-> name, isDir |-> TRUE,
                             err |-> TRUE, size |-> 0, ok |-> FALSE]>>
                     ELSE walkDir(tree, path, 1))
            ELSE IF here # {}
            THEN LET e == CHOOSE x \in here : TRUE
                 IN  <<[rel |-> path, name |-> name, isDir |-> FALSE,
                        err |-> FALSE, size |-> e.size, ok |-> e.ok]>>
            ELSE << >>)
           \o walkDir(tree, d, k + 1)

WalkDir(root, tree) ==
  <<[rel |-> <<".">>, name |-> root, isDir |-> TRUE, err |-> FALSE,
     size |-> 0, ok |-> TRUE]>> \o walkDir(tree, << >>, 1)

\* is entry e below the directory with relative path dir
Below(e, dir) ==
  IF dir = <<".">> THEN e.rel # <<".">>
  ELSE Len(e.rel) > Len(dir) /\ SubSeq(e.rel, 1, Len(dir)) = dir

\* fs.SkipDir: the entries of the directory are not visited
SkipDir(queue, dir) ==
  SelectSeq(queue, LAMBDA e : ~Below(e, dir))

NewScan(root, rootKind, tree) ==
  [pc |-> "stat", root |-> root, rootKind |-> rootKind, tree |-> tree,
   queue |-> << >>, Files |-> << >>, TotalFiles |-> 0, SkippedFiles |-> 0,
   Errors |-> << >>, err |-> ""]

ScanRest == <<indexerVars, server, store, search, chunking, vectors, embedding>>

\* os.Stat(repoPath) fails or the path is not a directory
ScanFails ==
  /\ scanning.pc = "stat"
  /\ scanning.rootKind # "dir"
  /\ scanning' = [scanning EXCEPT !.pc = "failed",
                    !.err = IF scanning.rootKind = "missing"
                            THEN "failed to stat repo path"
                            ELSE "repo path is not a directory"]
  /\ UNCHANGED ScanRest

\* the walk starts
ScanStarts ==
  /\ scanning.pc = "stat"
  /\ scanning.rootKind = "dir"
  /\ scanning' = [scanning EXCEPT !.pc = "walk",
                    !.queue = WalkDir(scanning.root, scanning.tree)]
  /\ UNCHANGED ScanRest

\* one call of the callback given to filepath.WalkDir
WalkFn ==
  /\ scanning.pc = "walk"
  /\ scanning.queue # << >>
  /\ LET d    == Head(scanning.queue)
         rest == Tail(scanning.queue)
     IN  scanning' =
           IF d.err
           THEN [scanning EXCEPT !.queue = rest,
                                 !.Errors = Append(@, d.rel)]
           ELSE IF d.isDir
           THEN [scanning EXCEPT !.queue = IF shouldIgnoreDir(d.rel, d.name)
                                           THEN SkipDir(rest, d.rel)
                                           ELSE rest]
           ELSE IF ShouldIgnore(d.rel)
           THEN [scanning EXCEPT !.queue = rest, !.SkippedFiles = @ + 1]
           ELSE IF ~IsSupported(d.name)
           THEN [scanning EXCEPT !.queue = rest, !.TotalFiles = @ + 1,
                                 !.SkippedFiles = @ + 1]
           ELSE IF ~d.ok
           THEN [scanning EXCEPT !.queue = rest, !.TotalFiles = @ + 1,
                                 !.SkippedFiles = @ + 1,
                                 !.Errors = Append(@, d.rel)]
           ELSE IF d.size > maxFileSizeBytes
           THEN [scanning EXCEPT !.queue = rest, !.TotalFiles = @ + 1,
                                 !.SkippedFiles = @ + 1]
           ELSE [scanning EXCEPT !.queue = rest, !.TotalFiles = @ + 1,
                                 !.Files = Append(@, d.rel)]
  /\ UNCHANGED ScanRest

\* WalkDir has returned nil: Scan returns the result
ScanReturns ==
  /\ scanning.pc = "walk"
  /\ scanning.queue = << >>
  /\ scanning' = [scanning EXCEPT !.pc = "returned"]
  /\ UNCHANGED ScanRest

NextScanner == ScanFails \/ ScanStarts \/ WalkFn \/ ScanReturns

InitScanner ==
  /\ IndexerUnused
  /\ server = Unused /\ store = Unused /\ search = Unused /\ chunking = Unused
  /\ vectors = Unused /\ embedding = Unused
  /\ scanning \in {NewScan(r, k, t) : r \in RootNames,
                                      k \in {"dir", "file", "missing"},
                                      t \in SUBSET ScanEntries}

SpecScanner == InitScanner /\ [][NextScanner]_vars
\* ---------------------------------------------------------------------
\* The vector client (Client.UpsertChunks, Client.Search and
\* Client.DeleteByRepo).  The backend keeps one point per id: its payload
\* is the map that UpsertChunks builds.  A chunk has the scalar fields of
\* models.CodeChunk; IndexedAt 0 is the zero time.  written is the chunk
\* last given to UpsertChunks for each id that the backend holds.
VectorChunks ==
  [ID : {"u1", "u2"}, RepoPath : {"rA", "rB"}, FilePath : {"a.go"},
   ChunkType : {"method"}, Content : {"v0", "v1"}, Language : {"go"},
   StartLine : {1}, EndLine : {2}, FunctionName : {"f"}, ClassName : {"K"},
   ParentChunkID : {"", "u0"}, IndexedAt : {1}]

VectorBatches ==
  {<<c>> : c \in VectorChunks}
    \cup {<<c, d>> : c \in {x \in VectorChunks : x.ID = "u1"},
                     d \in {x \in VectorChunks : x.ID = "u2"}}

SearchLimits == {0, 1}

DefaultSearchLimit == 5

\* the point that UpsertChunks makes of a chunk
ToPoint(chunk) ==
  [Id |-> chunk.ID,
   Payload |-> [repo_path |-> chunk.RepoPath, file_path |-> chunk.FilePath,
                chunk_type |-> chunk.ChunkType, content |-> chunk.Content,
                language |-> chunk.Language, start_line |-> chunk.StartLine,
                end_line |-> chunk.EndLine,
                function_name |-> chunk.FunctionName,
                class_name |-> chunk.ClassName]]

\* the chunk that Search makes of a point: the fields it does not set
\* have the zero value
FromPoint(result) ==
  [ID |-> result.Id,
   RepoPath |-> result.Payload.repo_path,
   FilePath |-> result.Payload.file_path,
   ChunkType |-> result.Payload.chunk_type,
   Content |-> result.Payload.content,
   Language |-> result.Payload.language,
   StartLine |-> result.Payload.start_line,
   EndLine |-> result.Payload.end_line,
   FunctionName |-> result.Payload.function_name,
   ClassName |-> result.Payload.class_name,
   ParentChunkID |-> "",
   IndexedAt |-> 0]

\* the backend's upsert: a point replaces the point with its id
UpsertPoints(points, new) ==
  {p \in points : \A q \in new : q.Id # p.Id} \cup new

NewClient == [points |-> {}, written |-> {}, chunks |-> << >>, err |-> ""]

VectorRest == <<indexerVars, server, store, search, chunking, scanning, embedding>>

\* Client.UpsertChunks(ctx, chunks); the backend may refuse
UpsertChunks(chunks) ==
  /\ vectors.points # {} \/ chunks # << >>
  /\ \E fails \in BOOLEAN :
       vectors' =
         IF chunks = << >> THEN [vectors EXCEPT !.err = ""]
         ELSE IF fails THEN [vectors EXCEPT !.err = "failed to upsert points"]
         ELSE [vectors EXCEPT
                 !.points = UpsertPoints(@, {ToPoint(c) : c \in Range(chunks)}),
                 !.written = {w \in @ : \A c \in Range(chunks) : c.ID # w.ID}
                               \cup Range(chunks),
                 !.err = ""]
  /\ UNCHANGED VectorRest

\* Client.Search(ctx, embedding, repoPath, limit): the limit nearest
\* points of the repository, in the order of their scores
VectorSearch(repoPath, limit) ==
  LET n == IF limit <= 0 THEN DefaultSearchLimit ELSE limit
      matching == {p \in vectors.points :
                     repoPath # "" => p.Payload.repo_path = repoPath}
      size == Min(n, Cardinality(matching))
  IN  /\ \E fails \in BOOLEAN :
           IF fails
           THEN vectors' = [vectors EXCEPT !.chunks = << >>,
                                           !.err = "failed to search"]
           ELSE \E results \in [1..size -> matching] :
                  /\ \A a, b \in 1..size : a # b => results[a] # results[b]
                  /\ vectors' = [vectors EXCEPT
                                   !.chunks = [k \in 1..size |-> FromPoint(results[k])],
                                   !.err = ""]
      /\ UNCHANGED VectorRest

\* Client.DeleteByRepo(ctx, repoPath)
DeleteByRepo(repoPath) ==
  /\ vectors' = [vectors EXCEPT
                   !.points = {p \in @ : p.Payload.repo_path # repoPath},
                   !.written = {w \in @ : w.RepoPath # repoPath}]
  /\ UNCHANGED VectorRest

NextVectorClient ==
  \/ \E chunks \in VectorBatches \cup {<< >>} : UpsertChunks(chunks)
  \/ \E repoPath \in {"", "rA", "rB"} : \E limit \in SearchLimits :
       VectorSearch(repoPath, limit)
  \/ \E repoPath \in {"rA", "rB"} : DeleteByRepo(repoPath)

InitVectorClient ==
  /\ IndexerUnused
  /\ server = Unused /\ store = Unused /\ search = Unused /\ chunking = Unused
  /\ scanning = Unused /\ embedding = Unused
  /\ vectors = NewClient

SpecVectorClient == InitVectorClient /\ [][NextVectorClient]_vars
\* ---------------------------------------------------------------------
\* processFilesInParallel on its own: one call with a given file list, from
\* the start of the workers and the collector to its return.  With one
\* worker the chunk channel holds two batches, so a list of three files
\* makes a sender wait for the collector; with more workers the lists are
\* those of a repository.
PoolFileLists == {<< >>, <<"a1">>, <<"a1", "a2">>, <<"a1", "a2", "b1">>}

NextPool ==
  \/ \E j \in JobIds : \E w \in DOMAIN proc[j].worker : WorkerRecv(j, w) /\ UNCHANGED libVars
  \/ \E j \in JobIds : \E w \in DOMAIN proc[j].worker : WorkerCheck(j, w) /\ UNCHANGED libVars
  \/ \E j \in JobIds : \E w \in DOMAIN proc[j].worker : WorkerChunk(j, w) /\ UNCHANGED libVars
  \/ \E j \in JobIds : \E w \in DOMAIN proc[j].worker : WorkerSend(j, w) /\ UNCHANGED libVars
  \/ \E j \in JobIds : \E w \in DOMAIN proc[j].worker : WorkerUpdate(j, w) /\ UNCHANGED libVars
  \/ \E j \in JobIds : \E w \in DOMAIN proc[j].worker : WorkerAdd(j, w) /\ UNCHANGED libVars
  \/ \E j \in JobIds : \E w \in DOMAIN proc[j].worker : WorkerRead(j, w) /\ UNCHANGED libVars
  \/ \E j \in JobIds : \E w \in DOMAIN proc[j].worker : WorkerSetFiles(j, w) /\ UNCHANGED libVars
  \/ \E j \in JobIds : \E w \in DOMAIN proc[j].worker : WorkerSetProgress(j, w) /\ UNCHANGED libVars
  \/ \E j \in JobIds : CollectorRecv(j) /\ UNCHANGED libVars
  \/ \E j \in JobIds : CollectorDone(j) /\ UNCHANGED libVars
  \/ \E j \in JobIds : WaitWorkers(j) /\ UNCHANGED libVars
  \/ \E j \in JobIds : WaitCollector(j) /\ UNCHANGED libVars

InitPool ==
  /\ config \in [Background : {FALSE}, Incremental : BOOLEAN,
                 ParallelWorkers : 1..MaxWorkers]
  /\ files = [f \in AllFiles |-> 0]
  /\ cache \in {NilCache, NewCache("rA")}
  /\ cacheFiles = [r \in RepoPaths |-> NilCache]
  /\ vectorDB = {}
  /\ \E fs \in PoolFileLists, force \in BOOLEAN :
       /\ NumWorkers = 1 \/ Len(fs) < Len(FilesOf("rA")) + 1
       /\ jobs = <<[NewJob("rA") EXCEPT !.FilesTotal = Len(fs)]>>
       /\ proc = <<[NewProc(force, FALSE) EXCEPT
                      !.pc = "wait", !.fileChan = fs, !.collector = "run",
                      !.worker = [w \in 1..NumWorkers |->
                                    [IdleWorker EXCEPT !.pc = "recv"]]]>>
  /\ LibUnused

SpecPool == InitPool /\ [][NextPool]_vars
\* ---------------------------------------------------------------------
\* The embedding stage: Batcher.ProcessChunks (internal/embeddings/
\* batcher.go) and Client.GenerateEmbeddings.  A chunk is its position in
\* the list and its text is that number; the embedding of a text is
\* written <<"embedding", text>>.  Every batch is one GenerateEmbeddings
\* call.  The goroutines of a call run the same code, so a call keeps one
\* of them (tracked, any index of the batch) with its slots embeddings[idx]
\* and errors[idx], and counts the others: atSelect wait for the
\* semaphore, atCheck hold it and test the context, atRequest hold it with
\* a request in flight, ok and failed have finished their request, left
\* have returned because the context was cancelled.
maxConcurrent == 10

\* chunk count, batch size and batcher workers of the runs
EmbeddingRuns ==
  { [chunks |-> 0,  batchSize |-> 16, workers |-> 1],
    [chunks |-> 1,  batchSize |-> 16, workers |-> 1],
    [chunks |-> 3,  batchSize |-> 2,  workers |-> 2],
    [chunks |-> 11, batchSize |-> 16, workers |-> 1],
    [chunks |-> 11, batchSize |-> 10, workers |-> 2],
    [chunks |-> 12, batchSize |-> 11, workers |-> 0] }

Embedding(text) == <<"embedding", text>>

NilSlot == <<"nil">>

\* one GenerateEmbeddings call on the texts first .. first + n - 1
NewCall(first, n, tracked) ==
  [pc |-> "start", first |-> first, n |-> n, tracked |-> tracked,
   g |-> "select", embeddings |-> NilSlot, errors |-> FALSE,
   atSelect |-> n - 1, atCheck |-> 0, atRequest |-> 0,
   ok |-> 0, failed |-> 0, left |-> 0,
   cancelled |-> FALSE, err |-> "", result |-> "none"]

\* Batcher.createBatches: the first index and the length of every batch
RECURSIVE createBatches(_, _, _)
createBatches(i, n, batchSize) ==
  IF i > n THEN << >>
  ELSE <<[first |-> i, n |-> Min(batchSize, n - i + 1)]>>
         \o createBatches(i + batchSize, n, batchSize)

\* NewBatcher and ProcessChunks up to the start of the batch goroutines
NewProcessChunks(run, trackedOf) ==
  LET batches == createBatches(1, run.chunks, run.batchSize)
  IN  [pc |-> "run", chunks |-> run.chunks,
       workers |-> IF run.workers <= 0 THEN 1 ELSE run.workers,
       calls |-> [b \in DOMAIN batches |->
                    NewCall(batches[b].first, batches[b].n,
                            Min(trackedOf[b], batches[b].n))],
       err |-> ""]

EmbedRest == <<indexerVars, server, store, search, chunking, scanning, vectors>>

\* the goroutines of call b that hold its semaphore
Holding(b) ==
  LET c == embedding.calls[b]
  IN  c.atCheck + c.atRequest + (IF c.g \in {"check", "request"} THEN 1 ELSE 0)

\* the batch goroutines that hold the batcher's semaphore
Running == {b \in DOMAIN embedding.calls :
              embedding.calls[b].pc \in {"single", "fanout"}}

\* semaphore <- struct{}{} of ProcessChunks, then processBatch calls
\* GenerateEmbeddings: a single text takes the simple method
BatchStart(b) ==
  /\ embedding.pc = "run"
  /\ embedding.calls[b].pc = "start"
  /\ Cardinality(Running) < embedding.workers
  /\ embedding' = [embedding EXCEPT !.calls[b].pc = IF embedding.calls[b].n = 1 THEN "single" ELSE "fanout"]
  /\ UNCHANGED EmbedRest

\* GenerateEmbedding(texts[0]) of the single-text branch returns
SingleDone(b) ==
  /\ embedding.pc = "run"
  /\ embedding.calls[b].pc = "single"
  /\ \E fails \in BOOLEAN :
       embedding' = [embedding EXCEPT !.calls[b] =
         IF fails
         THEN [@ EXCEPT !.pc = "returned", !.errors = TRUE, !.g = "exit",
                        !.err = "failed", !.result = "nil"]
         ELSE [@ EXCEPT !.pc = "returned", !.g = "exit",
                        !.embeddings = <<1, Embedding(embedding.calls[b].first)>>,
                        !.result = "embeddings"]]
  /\ UNCHANGED EmbedRest

\* select: case semaphore <- struct{}{}
Acquire(b, who) ==
  /\ embedding.pc = "run"
  /\ embedding.calls[b].pc = "fanout"
  /\ Holding(b) < maxConcurrent
  /\ IF who = "tracked"
     THEN /\ embedding.calls[b].g = "select"
          /\ embedding' = [embedding EXCEPT !.calls[b].g = "check"]
     ELSE /\ embedding.calls[b].atSelect > 0
          /\ embedding' = [embedding EXCEPT !.calls[b].atSelect = @ - 1,
                                            !.calls[b].atCheck = @ + 1]
  /\ UNCHANGED EmbedRest

\* select: case <-ctx.Done(): return
Leave(b, who) ==
  /\ embedding.pc = "run"
  /\ embedding.calls[b].pc = "fanout"
  /\ embedding.calls[b].cancelled
  /\ IF who = "tracked"
     THEN /\ embedding.calls[b].g = "select"
          /\ embedding' = [embedding EXCEPT !.calls[b].g = "exit"]
     ELSE /\ embedding.calls[b].atSelect > 0
          /\ embedding' = [embedding EXCEPT !.calls[b].atSelect = @ - 1,
                                            !.calls[b].left = @ + 1]
  /\ UNCHANGED EmbedRest

\* "Check context again before starting expensive work": return and
\* release the semaphore, or send the request
CheckContext(b, who) ==
  /\ embedding.pc = "run"
  /\ embedding.calls[b].pc = "fanout"
  /\ IF who = "tracked"
     THEN /\ embedding.calls[b].g = "check"
          /\ embedding' = [embedding EXCEPT !.calls[b].g =
                             IF embedding.calls[b].cancelled THEN "exit"
                             ELSE "request"]
     ELSE /\ embedding.calls[b].atCheck > 0
          /\ embedding' =
               IF embedding.calls[b].cancelled
               THEN [embedding EXCEPT !.calls[b].atCheck = @ - 1,
                                      !.calls[b].left = @ + 1]
               ELSE [embedding EXCEPT !.calls[b].atCheck = @ - 1,
                                      !.calls[b].atRequest = @ + 1]
  /\ UNCHANGED EmbedRest

\* GenerateEmbedding(txt) returns: the slot of the goroutine's index is
\* written, or its error is recorded and the context cancelled; the
\* semaphore is released
RequestDone(b, who) ==
  /\ embedding.pc = "run"
  /\ embedding.calls[b].pc = "fanout"
  /\ \E fails \in BOOLEAN :
       IF who = "tracked"
       THEN /\ embedding.calls[b].g = "request"
            /\ embedding' = [embedding EXCEPT !.calls[b] =
                 IF fails
                 THEN [@ EXCEPT !.g = "exit", !.errors = TRUE, !.cancelled = TRUE]
                 ELSE [@ EXCEPT !.g = "exit",
                         !.embeddings =
                            <<embedding.calls[b].tracked,
                              Embedding(embedding.calls[b].first
                                          + embedding.calls[b].tracked - 1)>>]]
       ELSE /\ embedding.calls[b].atRequest > 0
            /\ embedding' = [embedding EXCEPT !.calls[b] =
                 IF fails
                 THEN [@ EXCEPT !.atRequest = @ - 1, !.failed = @ + 1,
                                !.cancelled = TRUE]
                 ELSE [@ EXCEPT !.atRequest = @ - 1, !.ok = @ + 1]]
  /\ UNCHANGED EmbedRest

\* A GenerateEmbeddings that returns the embeddings whatever the errors.
CollectErrors_Ignored(b) ==
  /\ embedding.pc = "run"
  /\ embedding.calls[b].pc = "fanout"
  /\ embedding.calls[b].g = "exit"
  /\ embedding.calls[b].atSelect + embedding.calls[b].atCheck
       + embedding.calls[b].atRequest = 0
  /\ embedding' = [embedding EXCEPT !.calls[b].pc = "returned",
                                    !.calls[b].result = "embeddings"]
  /\ UNCHANGED EmbedRest

\* wg.Wait(), then "Check for errors": an error and no embeddings when
\* some slot of errors is set, the embeddings otherwise
CollectErrors(b) ==
  /\ embedding.pc = "run"
  /\ embedding.calls[b].pc = "fanout"
  /\ embedding.calls[b].g = "exit"
  /\ embedding.calls[b].atSelect + embedding.calls[b].atCheck
       + embedding.calls[b].atRequest = 0
  /\ embedding' = [embedding EXCEPT !.calls[b] =
       IF @.errors \/ @.failed > 0
       THEN [@ EXCEPT !.pc = "returned", !.err = "failed", !.result = "nil"]
       ELSE [@ EXCEPT !.pc = "returned", !.result = "embeddings"]]
  /\ UNCHANGED EmbedRest

\* wg.Wait() of ProcessChunks, then its check of the batches' errors
ProcessChunksReturns ==
  /\ embedding.pc = "run"
  /\ \A b \in DOMAIN embedding.calls : embedding.calls[b].pc = "returned"
  /\ embedding' = [embedding EXCEPT
       !.pc = "returned",
       !.err = IF \E b \in DOMAIN embedding.calls : embedding.calls[b].err # ""
               THEN "failed" ELSE ""]
  /\ UNCHANGED EmbedRest

\* the steps of call b
CallStep(b) ==
  \/ SingleDone(b)
  \/ \E who \in {"tracked", "other"} : Acquire(b, who)
  \/ \E who \in {"tracked", "other"} : Leave(b, who)
  \/ \E who \in {"tracked", "other"} : CheckContext(b, who)
  \/ \E who \in {"tracked", "other"} : RequestDone(b, who)
  \/ CollectErrors(b)

NextEmbeddings ==
  \/ \E b \in DOMAIN embedding.calls : BatchStart(b)
  \/ \E b \in DOMAIN embedding.calls : SingleDone(b)
  \/ \E b \in DOMAIN embedding.calls : \E who \in {"tracked", "other"} : Acquire(b, who)
  \/ \E b \in DOMAIN embedding.calls : \E who \in {"tracked", "other"} : Leave(b, who)
  \/ \E b \in DOMAIN embedding.calls : \E who \in {"tracked", "other"} : CheckContext(b, who)
  \/ \E b \in DOMAIN embedding.calls : \E who \in {"tracked", "other"} : RequestDone(b, who)
  \/ \E b \in DOMAIN embedding.calls : CollectErrors(b)
  \/ ProcessChunksReturns

\* the requests to the embedding backend that are in flight
RECURSIVE InFlightFrom(_)
InFlightFrom(b) ==
  IF b > Len(embedding.calls) THEN 0
  ELSE LET c == embedding.calls[b]
       IN  (IF c.pc = "single" THEN 1
            ELSE IF c.pc = "fanout"
            THEN c.atRequest + (IF c.g = "request" THEN 1 ELSE 0)
            ELSE 0) + InFlightFrom(b + 1)

InFlight == InFlightFrom(1)

InitEmbeddings ==
  /\ IndexerUnused
  /\ server = Unused /\ store = Unused /\ search = Unused /\ chunking = Unused
  /\ scanning = Unused /\ vectors = Unused
  /\ embedding \in {NewProcessChunks(run, <<t, u>>) :
                      run \in EmbeddingRuns, t \in {1, 2, 11}, u \in {1}}

SpecEmbeddings == InitEmbeddings /\ [][NextEmbeddings]_vars

\* ================================================================ claims
ScannedFiles(j) == Range(FilesOf(jobs[j].RepoPath))

\* C1: every file entry of a persisted hash-cache file of a repository is a
\* file of that repository, and when the entry counts chunks the vector
\* backend holds chunks of that file.
C1_PersistedEntriesAreStored ==
  \A r \in RepoPaths : \A f \in DOMAIN cacheFiles[r].Hashes :
    /\ f \in Range(FilesOf(r))
    /\ cacheFiles[r].Hashes[f].ChunkCount > 0 =>
         \E p \in vectorDB : p.FilePath = f /\ p.RepoPath = r

\* C2: in a job that produced chunks, Save is called only after the embedding
\* call and the upsert both returned nil; when either returned an error the
\* job is failed and Save is not called by that job.
C2_SaveOnlyAfterStore ==
  \A j \in JobIds :
    /\ (proc[j].allChunks # << >> /\ proc[j].saveErr # "none") =>
          proc[j].embedErr = "nil" /\ proc[j].storeErr = "nil"
    /\ (proc[j].embedErr = "err" \/ proc[j].storeErr = "err") =>
          jobs[j].Status = "failed" /\ proc[j].saveErr = "none"

C2_Witness ==
  \E j \in JobIds :
    proc[j].pc = "done" /\ proc[j].allChunks # << >> /\ proc[j].saveErr = "nil"

\* C3: when the embedding call fails in an incremental, not forced job over a
\* repository of which some files were cached and unchanged and the others
\* new, the job is failed and NeedsReindex is TRUE for every new file once
\* the job has ended.
C3_FailedEmbedLeavesNewFilesDirty ==
  \A j \in JobIds :
    ( /\ proc[j].pc = "done"
      /\ proc[j].embedErr = "err"
      /\ config.Incremental /\ ~proc[j].forceReindex
      /\ proc[j].cachedFiles # {}
      /\ proc[j].newFiles # {}
      /\ proc[j].cachedFiles \cup proc[j].newFiles = ScannedFiles(j) )
    => /\ jobs[j].Status = "failed"
       /\ \A f \in proc[j].newFiles : NeedsReindex(f)

\* C4: a forced reindex in incremental mode whose scan, embedding and storage
\* succeed ends completed with the repository's hash cache persisted.
C4_ForcedReindexCompletes ==
  \A j \in JobIds :
    ( /\ proc[j].pc = "done"
      /\ proc[j].forceReindex /\ config.Incremental
      /\ jobs[j].RepoPath \in Repos
      /\ proc[j].embedErr # "err" /\ proc[j].storeErr # "err" )
    => /\ jobs[j].Status = "completed"
       /\ cacheFiles[jobs[j].RepoPath] # NilCache

\* C5: a job is created running; its status changes only from running, and
\* only to completed or failed, so it changes at most once.
C5_StatusChangesOnce ==
  [][ /\ Len(jobs') >= Len(jobs)
      /\ \A j \in 1..Len(jobs') :
           IF j \in JobIds
           THEN jobs'[j].Status # jobs[j].Status =>
                  jobs[j].Status = "running" /\ jobs'[j].Status \in Terminal
           ELSE jobs'[j].Status = "running" ]_vars

C5_Witness ==
  \E j, k \in JobIds :
    /\ jobs[j].Status = "completed" /\ proc[j].pc = "returned"
    /\ jobs[k].Status = "failed" /\ proc[k].pc = "returned"

\* C6: in background mode, where a reader can hold the job while doIndex
\* runs, no field of a job is written once its status is completed or failed.
C6_TerminalJobIsImmutable ==
  [][ \A j \in JobIds :
        (config.Background /\ jobs[j].Status \in Terminal) => jobs'[j] = jobs[j] ]_vars

\* C7: the files-processed counter and the progress fraction of a job never
\* decrease.
C7_ProgressNeverDecreases ==
  [][ \A j \in JobIds :
        /\ jobs'[j].FilesIndexed >= jobs[j].FilesIndexed
        /\ jobs'[j].Progress.num * jobs[j].Progress.den
             >= jobs[j].Progress.num * jobs'[j].Progress.den ]_vars

\* C8: a file whose ChunkFile call failed contributes no chunk and gets no
\* Update; every scanned file is counted as processed by the time the workers
\* have finished; the job fails only through the scan, the embedding, the
\* storage or the cache save.
C8_ChunkErrorSkipsFile ==
  \A j \in JobIds :
    /\ proc[j].chunkFailed \cap proc[j].updated = {}
    /\ \A i \in 1..Len(proc[j].allChunks) :
         proc[j].allChunks[i].FilePath \notin proc[j].chunkFailed
    /\ \A i \in 1..Len(proc[j].chunkChan) : \A k \in 1..Len(proc[j].chunkChan[i]) :
         proc[j].chunkChan[i][k].FilePath \notin proc[j].chunkFailed
    /\ proc[j].pc \in {"drain", "embed", "store", "save", "complete", "endTime"} =>
         /\ proc[j].processedFiles = Cardinality(ScannedFiles(j))
         /\ proc[j].fileChan = << >>
    /\ (jobs[j].Status = "failed" /\ proc[j].pc # "returned") =>
         \/ jobs[j].Error = "scan"
         \/ proc[j].embedErr = "err"
         \/ proc[j].storeErr = "err"
         \/ proc[j].saveErr = "err"

C8_Witness ==
  \E j \in JobIds :
    /\ proc[j].pc = "done"
    /\ jobs[j].Status = "completed"
    /\ proc[j].chunkFailed # {}
    /\ proc[j].allChunks # << >>

HashOf(h) == [p \in DOMAIN h |-> h[p].Hash]

\* C11: a Load that directly follows a Save, by the same or by a fresh
\* manager, yields a path-to-hash map equal to the in-memory map at the Save.
C11_SaveLoadRoundTrip ==
  store.pc = "reloaded" => HashOf(store.cache.Hashes) = HashOf(store.saved)

\* C11, for the file paths that Unicode text can spell.
C11_SaveLoadRoundTripOfValidPaths ==
  (store.pc = "reloaded" /\ \A p \in DOMAIN store.saved : appendString(p) = p)
     => store.cache.Hashes = store.saved

\* C12: in synchronous mode, once the caller's context is cancelled while
\* the job of the request is still running, the handler is able to return
\* the indexing-cancelled outcome: it does not wait for a terminal status.
C12_CancelIsObservedWhileRunning ==
  (/\ ~config.Background
   /\ server.pc \in {"index", "select"}
   /\ server.ctxDone
   /\ jobs[server.job].Status = "running")
     => ENABLED SelectDone

\* C13: every scored candidate has hybrid score
\* (semanticScore * semanticWeight + boost) * pathMultiplier, where boost is
\* the exact-match constant when the lowercase query is a substring of the
\* lowercase content and (matchedWords / totalWords) * 0.3 otherwise; with
\* weight 0.7 and exact boost 1.5 the candidates (0.8, no match, neutral path)
\* and (0.6, exact match, neutral path) score 0.56 and 1.92 and the second is
\* returned first.
C13_HybridScore ==
  /\ \A k \in DOMAIN search.results :
       LET r == search.results[k]
           words == Len(QueryWords(search.query))
           exact == Contains(ToLower(r.Chunk.Content), ToLower(search.query))
       IN /\ r.ExactMatch = exact
          /\ exact =>
               r.HybridScore * 100 =
                 (r.SemanticScore * 70 + 150 * 100) * r.PathScore
                 * (ScoreUnit(search.query) \div 10000)
          /\ ~exact /\ words > 0 =>
               r.HybridScore * 100 * words =
                 (r.SemanticScore * 70 * words
                    + MatchedWords(search.query, r.Chunk.Content) * 30 * 100)
                 * r.PathScore * (ScoreUnit(search.query) \div 10000)
  /\ (/\ search.pc = "returned" /\ search.err = "nil"
      /\ search.query = "logger" /\ search.maxResults >= 2
      /\ Len(search.backend) = 2
      /\ {search.backend[k].FilePath : k \in DOMAIN search.backend} = {"src/Foo", "src/Bar"})
       => /\ Len(search.out) = 2
          /\ search.out[1].Chunk.FilePath = "src/Bar"
          /\ search.out[1].HybridScore * 100 = 192 * ScoreUnit(search.query)
          /\ search.out[2].Chunk.FilePath = "src/Foo"
          /\ search.out[2].HybridScore * 100 = 56 * ScoreUnit(search.query)

C13_Witness ==
  /\ search.pc = "returned" /\ search.query = "logger"
  /\ Len(search.out) = 2
  /\ search.out[1].Chunk.FilePath = "src/Bar" /\ search.out[1].ExactMatch
  /\ search.out[1].SemanticScore = 60 /\ search.out[1].HybridScore = 1920000
  /\ search.out[2].Chunk.FilePath = "src/Foo" /\ ~search.out[2].ExactMatch
  /\ search.out[2].SemanticScore = 80 /\ search.out[2].HybridScore = 560000

\* C14: for an empty query, scoring marks no candidate as an exact match and
\* the call does not crash; the scan for match positions records at most one
\* position per byte offset of the content.
C14_EmptyQueryMatchesNothing ==
  search.query = "" =>
    /\ search.pc \notin {"positions", "panic"}
    /\ \A k \in DOMAIN search.results : ~search.results[k].ExactMatch
    /\ search.i \in DOMAIN search.backend =>
         Len(search.positions) <= Len(search.backend[search.i].Content) + 1

\* C15: the path multiplier is decided by the first check that matches, in
\* the order test file (0.05), main source (1.3), vendor or generated (0.2),
\* otherwise 1.0; a file under /tests/ with a running score of 1.0 ends at
\* 0.05.
C15_FirstPathCheckWins ==
  \A k \in DOMAIN search.results :
    LET r == search.results[k]
        pathLower == ToLower(r.Chunk.FilePath)
    IN /\ isTestFile(pathLower) => r.PathScore = 5
       /\ ~isTestFile(pathLower) /\ isMainSourceFile(pathLower) => r.PathScore = 130
       /\ (/\ ~isTestFile(pathLower) /\ ~isMainSourceFile(pathLower)
           /\ isGeneratedOrVendor(pathLower)) => r.PathScore = 20
       /\ (/\ ~isTestFile(pathLower) /\ ~isMainSourceFile(pathLower)
           /\ ~isGeneratedOrVendor(pathLower)) => r.PathScore = 100
       /\ r.HybridScore * 100 = r.Running * r.PathScore
       /\ Contains(pathLower, "/tests/") /\ r.Running = ScoreUnit(search.query)
            => r.HybridScore * 100 = 5 * ScoreUnit(search.query)

C15_Witness ==
  /\ search.pc = "returned"
  /\ \E k \in DOMAIN search.out :
       /\ search.out[k].Chunk.FilePath = "/repo/tests/Auth_test.ext"
       /\ search.out[k].Running = ScoreUnit(search.query)
       /\ search.out[k].HybridScore * 20 = ScoreUnit(search.query)
  /\ \E k \in DOMAIN search.out :
       /\ isMainSourceFile(ToLower(search.out[k].Chunk.FilePath))
       /\ isGeneratedOrVendor(ToLower(search.out[k].Chunk.FilePath))
       /\ search.out[k].PathScore = 130

\* C16: for any max-results count and any candidate list, Search does not
\* crash and returns at most max-results results, in non-increasing order of
\* hybrid score, none of them scoring lower than a candidate left out.
C16_SearchReturnsTopResults ==
  /\ search.pc # "panic"
  /\ (search.pc = "returned" /\ search.err = "nil") =>
       /\ Len(search.out) <= search.maxResults
       /\ \A k \in 1..(Len(search.out) - 1) :
            search.out[k].HybridScore >= search.out[k + 1].HybridScore
       /\ search.out = SubSeq(search.ranked, 1, Len(search.out))
       /\ \A k \in DOMAIN search.out :
            \A n \in (Len(search.out) + 1)..Len(search.ranked) :
               search.out[k].HybridScore >= search.ranked[n].HybridScore

\* C18: every chunk the token chunker returns has StartLine >= 1 and
\* StartLine <= EndLine, and its text before the byte cap is exactly the
\* file's lines StartLine..EndLine (1-based), overlap chunks included.
C18_ChunkLinesAreTheFileLines ==
  \A k \in DOMAIN chunking.chunks :
     LET c == chunking.chunks[k]
     IN  /\ c.StartLine >= 1
         /\ c.StartLine <= c.EndLine
         /\ c.EndLine <= Len(chunking.lines)
         /\ c.Text = Join(SubSeq(chunking.lines, c.StartLine, c.EndLine))

\* ChunkByAST has returned: the walk is over, or ChunkFile passed the list on
ChunkByASTResult ==
  chunking.strategy = "ast" /\ (ASTReturned \/ chunking.pc = "done")

C19_OversizedNodeIsSplitWhole ==
  ChunkByASTResult =>
    \A n \in DOMAIN chunking.file.nodes :
      \A node \in {chunking.file.nodes[n]} \cup Range(chunking.file.nodes[n].methods) :
        (node.type \in functionNodeTypes /\ NodeBytes(node) > MaxChunkSize(chunking.cfg)) =>
          LET pieces == {k \in DOMAIN chunking.chunks :
                           /\ chunking.chunks[k].Node = node.startLine
                           /\ chunking.chunks[k].ChunkType \in {"function", "method"}}
          IN  /\ Cardinality(pieces) >= 2
              /\ \A k \in pieces : chunking.chunks[k].Len <= MaxChunkSize(chunking.cfg)
              /\ \A l \in DOMAIN node.lines :
                   \E k \in pieces :
                      /\ chunking.chunks[k].From <= Offset(node.lines, l - 1)
                      /\ Offset(node.lines, l - 1) + node.lines[l]
                           <= chunking.chunks[k].From + chunking.chunks[k].Len

C24_TerminalJobCountsEveryFile ==
  \A j \in JobIds :
     (jobs[j].Status \in Terminal /\ jobs[j].Error # "scan") =>
        /\ jobs[j].FilesIndexed = jobs[j].FilesTotal
        /\ jobs[j].FilesTotal # 0 => jobs[j].Progress.num = jobs[j].Progress.den

\* C27: the hash a worker records for a file is the hash of the bytes that
\* were chunked, also when the file is edited between the read of
\* ChunkFile and the hashing of Update.
C27_HashIsOfTheChunkedBytes ==
  [][\A j \in JobIds : \A w \in DOMAIN proc[j].worker :
       (/\ proc[j].worker[w].pc = "update"
        /\ proc'[j].worker[w].pc = "add"
        /\ cache # NilCache
        /\ proc[j].worker[w].chunks # << >>) =>
          cache'.Hashes[proc[j].worker[w].filePath].Content
            = proc[j].worker[w].chunks[1].Content]_vars

\* C28: indexing never removes a point from the vector backend: the chunks
\* stored by earlier jobs stay next to the new ones, which have fresh ids,
\* after a re-index of a changed file, a forced reindex, or ClearCache
\* followed by Index.
C28_IndexingOnlyAddsPoints == [][vectorDB \subseteq vectorDB']_vars

\* two jobs have each stored a chunk of the same file
C28_Witness ==
  \E p, q \in vectorDB : p.FilePath = q.FilePath /\ p.ID # q.ID

ScanEligible(tree) ==
  { e.dir \o <<e.name>> : e \in
      { x \in tree :
          /\ ~x.isDir
          /\ \A k \in 1..Len(x.dir) :
                /\ CharAt(x.dir[k], 1) # "."
                /\ ~ShouldIgnore(SubSeq(x.dir, 1, k))
          /\ ~ShouldIgnore(x.dir \o <<x.name>>)
          /\ IsSupported(x.name)
          /\ x.ok
          /\ x.size <= maxFileSizeBytes } }

\* C21: Scan returns a file exactly when no directory strictly below the
\* root on its path is hidden or ignored, the file is not ignored, its
\* extension is supported and its size is within the ceiling; an entry
\* that cannot be read is in the error list and Scan does not fail.
C21_ScanRetainsExactlyTheEligibleFiles ==
  /\ scanning.pc = "returned" =>
        /\ Range(scanning.Files) = ScanEligible(scanning.tree)
        /\ \A k \in DOMAIN scanning.Errors :
              \E e \in scanning.tree :
                 ~e.ok /\ e.dir \o <<e.name>> = scanning.Errors[k]
  /\ scanning.pc = "failed" => scanning.rootKind # "dir"

\* C22: a chunk written by UpsertChunks and later returned by Search has
\* the same value in every scalar field: id, repository path, file path,
\* kind, content, language, start line, end line, function name, class
\* name, parent chunk id and indexed timestamp.
C22_SearchReturnsTheChunkWritten ==
  \A k \in DOMAIN vectors.chunks : vectors.chunks[k] \in vectors.written

\* C23: processFilesInParallel always returns: until it has returned some
\* step of it can be taken (no deadlock), the chunk channel is closed only
\* when every worker has finished (no send on a closed channel), and the
\* list it returns is the batches the workers sent, each exactly once.
C23_PoolReturnsEveryBatchOnce ==
  \A j \in JobIds :
     /\ proc[j].closed =>
          \A w \in DOMAIN proc[j].worker : proc[j].worker[w].pc = "exit"
     /\ proc[j].pc \in {"wait", "drain"} => ENABLED NextPool
     /\ proc[j].pc \in {"embed", "save"} =>
          /\ proc[j].chunkChan = << >>
          /\ proc[j].allChunks = Flatten(proc[j].sent)

\* the call has returned the batches of three files
C23_Witness ==
  \E j \in JobIds : /\ proc[j].pc \in {"embed", "save"}
                    /\ Len(proc[j].sent) = 3
                    /\ Len(proc[j].allChunks) = 3

\* a sender waits: its batch is ready and the channel is full
C23_SenderWaits ==
  \E j \in JobIds : \E w \in DOMAIN proc[j].worker :
     proc[j].worker[w].pc = "send" /\ Len(proc[j].chunkChan) = ChunkChanCap

\* C25: GenerateEmbeddings always returns, also when a request fails while
\* goroutines wait for the semaphore; a return without error gives one
\* non-nil embedding per text, at the index of its text; when a request
\* failed the call returns an error and no embeddings.
C25_GenerateEmbeddingsReturnsAligned ==
  \A b \in DOMAIN embedding.calls :
     LET c == embedding.calls[b]
     IN  /\ c.pc \in {"single", "fanout"} => ENABLED CallStep(b)
         /\ (c.pc = "returned" /\ c.err = "") =>
              /\ c.result = "embeddings"
              /\ c.embeddings = <<c.tracked, Embedding(c.first + c.tracked - 1)>>
              /\ c.ok = c.n - 1
         /\ (c.pc = "returned" /\ (c.errors \/ c.failed > 0)) =>
              c.err # "" /\ c.result = "nil"

\* a call has returned an error after a request failed while goroutines
\* waited for the semaphore, which then left on the cancelled context
C25_Witness ==
  \E b \in DOMAIN embedding.calls :
     /\ embedding.calls[b].pc = "returned"
     /\ embedding.calls[b].err # ""
     /\ embedding.calls[b].n > maxConcurrent
     /\ embedding.calls[b].left > 0
     /\ embedding.calls[b].ok = maxConcurrent - 1

\* C26: while the embedding stage of a job runs, at most 10 requests to the
\* embedding backend are in flight, whatever the number of batches and of
\* batch workers.
C26_AtMostTenRequestsInFlight == InFlight <= maxConcurrent

\* every pass of the loop of chunkWithLimits consumes at least one line,
\* so the loop ends after at most len(lines) passes
TokenLoopAdvances ==
  [][(chunking.pc = "loop" /\ chunking'.pc = "loop") =>
        chunking'.i > chunking.i]_vars

\* every non-blank line of the input is a line of the text that a
\* returned chunk was made of
TokenTextCovered ==
  chunking.pc = "returned" =>
    \A k \in DOMAIN chunking.lines :
       ~IsSpace(chunking.lines[k]) =>
          \E c \in DOMAIN chunking.chunks :
             \E a \in 1..k : \E z \in k..Len(chunking.lines) :
                chunking.chunks[c].Text = Join(SubSeq(chunking.lines, a, z))

\* C30: the token chunker terminates for every text and every pair of
\* token budget and overlap budget, also with an overlap not below the
\* budget and a budget of zero or less (TokenLoopAdvances), and when it
\* has returned every non-blank line of the input is in the line set
\* StartLine..EndLine of a returned chunk.
C30_EveryLineIsInAChunk ==
  chunking.pc = "returned" =>
    \A k \in DOMAIN chunking.lines :
       ~IsSpace(chunking.lines[k]) =>
          \E c \in DOMAIN chunking.chunks :
             /\ chunking.chunks[c].StartLine <= k
             /\ k <= chunking.chunks[c].EndLine
====
